---- MODULE Spec2Model ----
(***************************************************************************)
(* A model of the readiness adapter of tokio-zmq: the send and receive     *)
(* futures (src/async/future.rs), the message sink (src/async/sink.rs),    *)
(* the message stream (src/async/stream.rs) and the combined sink-stream   *)
(* (src/async/sink_stream.rs), together with the two collaborators they   *)
(* talk to: the MQ socket (frames, event mask, notification fd) and the    *)
(* host scheduler's registration of that fd (PollEvented).                 *)
(*                                                                         *)
(* A call of the library (poll, start_send, ...) runs as a sequence of     *)
(* steps: one step up to the entry of its loop, and one step per loop      *)
(* iteration (one MQ send or receive attempt).  The MQ library's I/O       *)
(* thread runs beside the caller, so frames may arrive and the event mask  *)
(* may change between two iterations; a loop that does not leave on a      *)
(* would-block result is therefore visible as a call that stays inside     *)
(* its loop.  No new library call starts before the running one returned   *)
(* (pc = "idle").                                                          *)
(***************************************************************************)
EXTENDS Naturals, Sequences, FiniteSets, TLC

(* Bounds of the model. *)
MaxLen == 2
MaxMsgs == 2
MaxSends == 2
MaxWakes == 3
MaxSSLen == 1
MaxSSMsgs == 1
Duration == 2

\* Rust's Option: None is the empty sequence, Some(x) the sequence of x alone.
None == <<>>
Some(x) == <<x>>
The(o) == o[1]

VARIABLES
    comp,    \* the component this behaviour drives: "req", "resp", "sink", "stream", "ss", "ctl",
             \* "end", "timeout", "pair"
    env,     \* the MQ socket and the scheduler registration of its fd
    req,     \* a MultipartRequest
    resp,    \* a MultipartResponse, or None (MultipartStream.response)
    sink,    \* a MultipartSink of src/async/sink.rs
    ss,      \* a MultipartSinkStream
    ctl,     \* the control side of a ControlledStream
    timer,   \* the clock and the Sleep of a TimeoutStream
    peer,    \* the receiving end of a connected pair of sockets
    pc,      \* where the running call is: "idle" when none is running
    ctx,     \* the locals of the running call
    ret,     \* what the last call returned
    hist     \* history of the calls: what was accepted, yielded, completed

vars == <<comp, env, req, resp, sink, ss, ctl, timer, peer, pc, ctx, ret, hist>>

(***************************************************************************)
(* Multiparts and frames.  Frame <<k, i>> is frame i of multipart k.       *)
(***************************************************************************)
Multipart(k, n) == [i \in 1..n |-> <<k, i>>]

\* The counters of the history saturate: calls counts the MQ calls of the
\* running call, wakes the immediate wakes asked for while the environment
\* has been quiet (no arrival, no change of the mask, no notification).
CallCap == 2 * MaxLen + 2
BumpCalls(c) == IF c < CallCap THEN c + 1 ELSE c
BumpWakes(e) == IF ~e.quiet THEN 0 ELSE IF e.wakes < MaxWakes THEN e.wakes + 1 ELSE e.wakes

(***************************************************************************)
(* The MQ socket.  inq: the frames buffered for reading, each with its     *)
(* more-follows bit; wire: the frames handed to zmq send, each with the    *)
(* flags of the call; pollout: the POLLOUT bit of the event mask; POLLIN   *)
(* is set when a frame can be read.  fdsig: the notification fd is         *)
(* signalled (a change of the mask the application has not looked at yet). *)
(* The scheduler registration: rready/wready are the readiness it reports, *)
(* rarmed/warmed whether the task is registered to be woken, woken whether *)
(* the task has been told to run.                                          *)
(* spurious: a receive on the socket may report would-block although a     *)
(* frame is buffered.                                                      *)
(***************************************************************************)
POLLIN(e) == e.inq # <<>>
POLLOUT(e) == e.pollout

\* zmq::Socket::get_events: looking at the mask resets the fd's signal.
GetEvents(e) == [e EXCEPT !.fdsig = FALSE, !.calls = BumpCalls(e.calls)]

\* PollEvented2::poll_write_ready2 / poll_read_ready2: Pending registers the task.
PollWriteReady2(e) == IF e.wready THEN e ELSE [e EXCEPT !.warmed = TRUE]
PollReadReady2(e) == IF e.rready THEN e ELSE [e EXCEPT !.rarmed = TRUE]

\* PollEvented2::clear_write_ready2 / clear_read_ready2: forget the readiness
\* and register the task for the next notification.
ClearWriteReady2(e) == [e EXCEPT !.wready = FALSE, !.warmed = TRUE, !.cleared = TRUE]
ClearReadReady2(e) == [e EXCEPT !.rready = FALSE, !.rarmed = TRUE, !.cleared = TRUE]

\* cx.waker().wake(): schedule an immediate poll of the current task.
Wake(e) == [e EXCEPT !.woken = TRUE, !.wakes = BumpWakes(e), !.selfwoke = TRUE]

\* The entry of a library call: the executor polls the task.
StartCall(e) == [e EXCEPT !.woken = FALSE, !.calls = 0, !.cleared = FALSE, !.selfwoke = FALSE]

\* The return of a library call.
EndCall(e) == [e EXCEPT !.calls = 0]

\* The environment after a step with result r: "true" (a readiness check
\* passed) and "loop" go on inside the call, every other result returns.
After(e, r) == IF r \in {"true", "loop"} THEN e ELSE EndCall(e)

\* An event of the environment ends the quiet period.
Disturbed(e) == [e EXCEPT !.quiet = FALSE, !.wakes = 0]

\* The fd is edge-triggered: a change of the mask raises a notification only
\* when the fd is not signalled already.  A notification makes the scheduler
\* report the fd ready (it does not tell the directions apart) and wakes the
\* registered task.
FdEdge(e) ==
    IF e.fdsig THEN e
    ELSE [e EXCEPT !.fdsig = TRUE, !.rready = TRUE, !.wready = TRUE,
                   !.woken = e.woken \/ e.rarmed \/ e.warmed,
                   !.rarmed = FALSE, !.warmed = FALSE]

\* The frame that arrives next: frame i of message m.
NextArrival(e) ==
    LET n == Len(e.arrived) IN
    IF n = 0 THEN <<1, 1>>
    ELSE IF e.arrived[n].more THEN <<e.arrived[n].msg[1], e.arrived[n].msg[2] + 1>>
    ELSE <<e.arrived[n].msg[1] + 1, 1>>

InitEnv ==
    [inq |-> <<>>, arrived |-> <<>>, wire |-> <<>>, pollout |-> FALSE, fdsig |-> FALSE,
     rready |-> FALSE, wready |-> FALSE, rarmed |-> FALSE, warmed |-> FALSE,
     woken |-> TRUE, calls |-> 0, wakes |-> 0, cleared |-> FALSE, selfwoke |-> FALSE,
     quiet |-> TRUE, spurious |-> FALSE]


IsErr(r) == r \in {"Err_Reused", "Err_EAGAIN", "Err_Zmq", "Err_Sink", "Err_Stream", "Err_Timer"}

Out(f, e, r) == [f |-> f, e |-> e, r |-> r]

(***************************************************************************)
(* MultipartRequest (src/async/future.rs).  sock: the future holds the     *)
(* socket/file pair (both Options are set and taken together);  multipart: *)
(* the frames still to send, or None.                                      *)
(***************************************************************************)
NewRequest(multipart) == [sock |-> TRUE, multipart |-> Some(multipart)]

\* MsgPlace of the frame popped from a multipart whose remaining frames are rest.
MsgPlaceOf(rest) == IF rest = <<>> THEN "Last" ELSE "Nth"

\* A send that never sets SNDMORE.
SendFlagsNoMore(place) == {"DONTWAIT"}

\* The flags of one send: always DONTWAIT, SNDMORE unless the frame is the last.
SendFlags(place) == IF place = "Last" THEN {"DONTWAIT"} ELSE {"DONTWAIT", "SNDMORE"}

\* zmq::Socket::send_msg(msg, flags) accepted the frame.
Sent(e, msg, flags) ==
    [e EXCEPT !.wire = Append(e.wire, [msg |-> msg, flags |-> flags]),
              !.fdsig = FALSE, !.calls = BumpCalls(e.calls)]

\* zmq::Socket::send_msg or recv failed with result r ("eagain" or "err").
Failed(e, r) == [e EXCEPT !.fdsig = FALSE, !.calls = BumpCalls(e.calls)]

\* What send_msg does when the event mask has no POLLOUT.
ReqNotWritable(e) == Wake(ClearWriteReady2(e))

\* A check_write that does not look whether the pair is there.
ReqCheckWriteNoPair(f, e) == {Out(f, e, "true")}

\* MultipartRequest::check_write: r is "true", "false" or an error.
ReqCheckWrite(f, e) ==
    IF ~f.sock THEN {Out(f, e, "Err_Reused")}
    ELSE IF e.wready THEN {Out(f, e, "true")}
    ELSE LET e1 == GetEvents(PollWriteReady2(e)) IN
         {Out(f, e1, "Err_Zmq")} \cup
         (IF POLLOUT(e1)
          THEN {Out(f, Wake(ClearWriteReady2(e1)), "true")}
          ELSE {Out(f, ClearWriteReady2(e1), "false")})

\* MultipartRequest::send_msg for frame msg at place: r is "sent" (Ok(None)),
\* "back" (Ok(Some(msg))) or an error.
ReqSendMsg(f, e, msg, place) ==
    IF ~f.sock THEN {Out(f, e, "Err_Reused")}
    ELSE LET e1 == GetEvents(e) IN
         {Out(f, e1, "Err_Zmq")} \cup
         (IF ~POLLOUT(e1)
          THEN {Out(f, ReqNotWritable(e1), "back")}
          ELSE {Out(f, Sent(e1, msg, SendFlags(place)), "sent"),
                Out(f, Failed(e1, "eagain"), "Err_EAGAIN"),
                Out(f, Failed(e1, "err"), "Err_Zmq")})

\* One iteration of the loop of MultipartRequest::send: r is "loop" when the
\* loop goes round again, "Ready" when send returns Ok(Ready), or an error.
\* self.multipart is taken at the top of the iteration and put back only on
\* the paths that reach the assignment at the loop's end.
ReqSendIter(f, e) ==
    IF f.multipart = None THEN {Out(f, e, "Ready")}
    ELSE LET taken == [f EXCEPT !.multipart = None] IN
         IF The(f.multipart) = <<>>
         THEN IF ~f.sock THEN {Out(taken, e, "Err_Reused")}
              ELSE {Out(taken, Wake(ClearWriteReady2(e)), "Ready")}
         ELSE LET msg == Head(The(f.multipart))
                  rest == Tail(The(f.multipart))
              IN  { IF o.r = "sent"
                    THEN IF rest = <<>> THEN Out(taken, o.e, "Ready")
                         ELSE Out([f EXCEPT !.multipart = Some(rest)], o.e, "loop")
                    ELSE IF o.r = "back"
                    THEN Out([f EXCEPT !.multipart = Some(<<msg>> \o rest)], o.e, "loop")
                    ELSE Out(taken, o.e, o.r)
                    : o \in ReqSendMsg(f, e, msg, MsgPlaceOf(rest)) }

\* MultipartRequest::poll after send returned Ok(Ready): the pair is handed out.
ReqFinish(f) == [f EXCEPT !.sock = FALSE]

\* MultipartRequest::take_socket and give_socket.
ReqTakeSocket(f) == [f EXCEPT !.sock = FALSE]
ReqGiveSocket(f) == [f EXCEPT !.sock = TRUE]

(***************************************************************************)
(* MultipartResponse (src/async/future.rs).  multipart: the frames         *)
(* accumulated so far, or None.                                            *)
(***************************************************************************)
NewResponse == [sock |-> TRUE, multipart |-> None]

\* A recv that neither clears the read readiness nor wakes the task.
RespNotReadableSilent(e) == e

\* What recv does when the event mask has no POLLIN.
RespNotReadable(e) == Wake(ClearReadReady2(e))

\* A check_read that leaves the read readiness alone when the event mask has
\* no POLLIN.
RespCheckReadKeeps(f, e) ==
    IF ~f.sock THEN {Out(f, e, "Err_Reused")}
    ELSE IF e.rready THEN {Out(f, e, "true")}
    ELSE LET e1 == GetEvents(PollReadReady2(e)) IN
         {Out(f, e1, "Err_Zmq")} \cup
         (IF POLLIN(e1)
          THEN {Out(f, Wake(ClearReadReady2(e1)), "true")}
          ELSE {Out(f, e1, "false")})

\* MultipartResponse::check_read: r is "true", "false" or an error.
RespCheckRead(f, e) ==
    IF ~f.sock THEN {Out(f, e, "Err_Reused")}
    ELSE IF e.rready THEN {Out(f, e, "true")}
    ELSE LET e1 == GetEvents(PollReadReady2(e)) IN
         {Out(f, e1, "Err_Zmq")} \cup
         (IF POLLIN(e1)
          THEN {Out(f, Wake(ClearReadReady2(e1)), "true")}
          ELSE {Out(f, ClearReadReady2(e1), "false")})

\* A recv that enters its loop without looking at the event mask.
RespRecvHeadReads(f, e) ==
    IF ~f.sock THEN {Out(f, e, "Err_Reused")}
    ELSE LET e1 == GetEvents(e) IN {Out(f, e1, "Err_Zmq"), Out(f, e1, "loop")}

\* The head of MultipartResponse::recv, up to its loop: r is "loop" when the
\* loop is entered, "Pending" or an error.
RespRecvHead(f, e) ==
    IF ~f.sock THEN {Out(f, e, "Err_Reused")}
    ELSE LET e1 == GetEvents(e) IN
         {Out(f, e1, "Err_Zmq")} \cup
         (IF ~POLLIN(e1)
          THEN {Out(f, RespNotReadable(e1), "Pending")}
          ELSE {Out(f, e1, "loop")})

\* MultipartResponse::recv_msg: r is "msg" (the frame is o.f), "Pending"
\* (would-block) or an error; here f of the outcome carries the frame read.
\* On a socket marked spurious the library may report would-block although
\* a frame is buffered (the Err(EAGAIN) arm is there whatever the event mask
\* said).
RespRecvMsg(f, e) ==
    IF ~f.sock THEN {Out(None, e, "Err_Reused")}
    ELSE {Out(None, Failed(e, "err"), "Err_Zmq")} \cup
         (IF e.inq # <<>>
          THEN {Out(Some(Head(e.inq)),
                    [e EXCEPT !.inq = Tail(e.inq), !.fdsig = FALSE,
                              !.calls = BumpCalls(e.calls)], "msg")}
          ELSE {Out(None, Failed(e, "eagain"), "Pending")}) \cup
         (IF e.spurious /\ e.inq # <<>>
          THEN {Out(None, Failed(e, "eagain"), "Pending")}
          ELSE {})

\* A receive that takes every frame for the last one.
RecvDoneAtOnce(msg) == TRUE

\* A multipart is complete when the frame just read has no more-follows bit.
RecvDone(msg) == ~msg.more

\* multipart.push_back(msg) on self.multipart.take().unwrap_or_default().
Accumulate(multipart, msg) ==
    (IF multipart = None THEN <<>> ELSE The(multipart)) \o <<msg>>

\* One iteration of the loop of MultipartResponse::recv, with its local
\* `first`: r is "loop" (o.first is the new value of first), "Ready" (o.item
\* is the multipart), "Pending" or an error.
RespRecvIter(f, e, first) ==
    { IF o.r = "msg"
      THEN LET multipart == Accumulate(f.multipart, The(o.f)) IN
           IF RecvDone(The(o.f))
           THEN [f |-> [f EXCEPT !.multipart = None], e |-> o.e, r |-> "Ready",
                 first |-> FALSE, item |-> Some(multipart)]
           ELSE [f |-> [f EXCEPT !.multipart = Some(multipart)], e |-> o.e, r |-> "loop",
                 first |-> FALSE, item |-> None]
      ELSE IF o.r = "Pending"
      THEN [f |-> f, e |-> o.e, r |-> IF first THEN "Pending" ELSE "loop",
            first |-> first, item |-> None]
      ELSE [f |-> f, e |-> o.e, r |-> o.r, first |-> first, item |-> None]
      : o \in RespRecvMsg(f, e) }

\* MultipartResponse::poll after recv returned Ok(Ready): the pair is handed out.
RespFinish(f) == [f EXCEPT !.sock = FALSE]

RespTakeSocket(f) == [f EXCEPT !.sock = FALSE]
RespGiveSocket(f) == [f EXCEPT !.sock = TRUE]


(***************************************************************************)
(* MultipartSink (src/async/sink.rs).  The sink shares the socket and the  *)
(* file by reference count, so it always holds them; multipart is the one  *)
(* buffered multipart, or None.  The file is a tokio-core PollEvented:     *)
(* poll_write registers the task when not ready, need_read and need_write  *)
(* forget the readiness and register the task, task::current().notify()    *)
(* schedules an immediate poll.                                            *)
(***************************************************************************)
NewSink == [multipart |-> None]

NeedRead(e) == ClearReadReady2(e)
NeedWrite(e) == ClearWriteReady2(e)

\* MultipartSink::check_write: r is "true", "false" or an error.
SinkCheckWrite(e) ==
    IF e.wready THEN {Out(None, e, "true")}
    ELSE LET e1 == GetEvents(PollWriteReady2(e)) IN
         {Out(None, e1, "Err_Zmq")} \cup
         (IF POLLOUT(e1)
          THEN {Out(None, IF POLLIN(e1) THEN NeedRead(Wake(e1)) ELSE Wake(e1), "true")}
          ELSE {Out(None, e1, "false")})

\* MultipartSink::send_msg: r is "sent" (AsyncSink::Ready), "back"
\* (AsyncSink::NotReady(msg)) or an error.
SinkSendMsg(e, msg, place) ==
    LET e1 == GetEvents(e) IN
    {Out(None, e1, "Err_Zmq")} \cup
    (IF ~POLLOUT(e1)
     THEN {Out(None, IF POLLIN(e1) THEN NeedRead(e1) ELSE NeedWrite(e1), "back")}
     ELSE {Out(None, Sent(e1, msg, SendFlags(place)), "sent"),
           Out(None, Failed(e1, "eagain"), "Err_EAGAIN"),
           Out(None, Failed(e1, "err"), "Err_Zmq")})

\* One iteration of the loop of MultipartSink::flush: r is "loop", "Ready" or
\* an error; done tells that flush returns Ready for a buffered multipart.
SinkFlushIter(s, e) ==
    IF s.multipart = None THEN {[f |-> s, e |-> e, r |-> "Ready", done |-> FALSE]}
    ELSE LET taken == [s EXCEPT !.multipart = None] IN
         IF The(s.multipart) = <<>>
         THEN {[f |-> taken, e |-> e, r |-> "Ready", done |-> TRUE]}
         ELSE LET curr_msg == Head(The(s.multipart))
                  rest == Tail(The(s.multipart))
              IN  { IF o.r = "sent"
                    THEN IF rest # <<>>
                         THEN [f |-> [s EXCEPT !.multipart = Some(rest)], e |-> o.e,
                               r |-> "loop", done |-> FALSE]
                         ELSE [f |-> taken, e |-> o.e, r |-> "Ready",
                               done |-> TRUE]
                    ELSE IF o.r = "back"
                    THEN [f |-> [s EXCEPT !.multipart = Some(<<curr_msg>> \o rest)],
                          e |-> o.e, r |-> "loop", done |-> FALSE]
                    ELSE [f |-> taken, e |-> o.e, r |-> o.r, done |-> FALSE]
                    : o \in SinkSendMsg(e, curr_msg, MsgPlaceOf(rest)) }

(***************************************************************************)
(* The sink and the stream that MultipartSinkStream drives.  Their source  *)
(* is not among the files of src/ (src/async/sink.rs and stream.rs are the *)
(* reference-counted revision, without take_socket and give_socket), so    *)
(* they are modelled from the specification's sections 4.5 and 4.6 and     *)
(* from the calls sink_stream.rs makes: a typestate Ready(adapter),        *)
(* Pending(future) or Polling, the future being a MultipartRequest (sink)  *)
(* or a MultipartResponse (stream).  An object is the record               *)
(* [state, sock] together with its future f (None unless Pending).         *)
(***************************************************************************)
Obj(state, sock, f) == [o |-> [state |-> state, sock |-> sock], f |-> f]

\* MultipartSink::new(sock, file) and MultipartStream::new(sock, file).
TSinkNew == Obj("Ready", TRUE, None)
TStreamNew == Obj("Ready", TRUE, None)

\* MultipartSink::start_send(multipart): Ready -> Sending, any other state fails.
TSinkStartSend(p, multipart) ==
    IF p.o.state = "Ready"
    THEN [p |-> Obj("Pending", FALSE, Some(NewRequest(multipart))), r |-> "Ok"]
    ELSE [p |-> Obj("Polling", FALSE, None), r |-> "Err_Sink"]

\* take_socket of either object: the pair comes out of the Ready state or of
\* the pending future; got tells whether there was one.
TTakeSocket(p) ==
    IF p.o.state = "Ready" THEN [p |-> Obj("Polling", FALSE, None), got |-> p.o.sock]
    ELSE IF p.o.state = "Pending"
    THEN [p |-> [p EXCEPT !.f = Some([The(p.f) EXCEPT !.sock = FALSE])], got |-> The(p.f).sock]
    ELSE [p |-> p, got |-> FALSE]

\* give_socket of either object: into the pending future, else into Ready.
TGiveSocket(p) ==
    IF p.o.state = "Pending"
    THEN [p EXCEPT !.f = Some([The(p.f) EXCEPT !.sock = TRUE])]
    ELSE Obj("Ready", TRUE, None)

\* The object after its future's poll returned r: a completed future hands
\* the adapter back (Ready), a pending one stays, an error leaves Polling.
TPolled(p, f, r) ==
    IF r = "Ready" THEN Obj("Ready", TRUE, None)
    ELSE IF r = "Pending" THEN [p EXCEPT !.f = Some(f)]
    ELSE Obj("Polling", FALSE, None)

(***************************************************************************)
(* MultipartSinkStream (src/async/sink_stream.rs).  inner is the variant   *)
(* of SinkStreamState, sock whether the variant itself holds the pair      *)
(* (Ready and Both), sink and stream the objects of the variant, or the    *)
(* locals of the running call while inner is Polling.                      *)
(***************************************************************************)
SSState(inner, sock, sink_, stream_) ==
    [inner |-> inner, sock |-> sock, sink |-> sink_, stream |-> stream_]

NewSinkStream == SSState("Ready", TRUE, None, None)

\* MultipartSinkStream::polling: the state is moved out, Polling is left.
Polling == SSState("Polling", FALSE, None, None)

\* A poll_sink that does not rebuild Both when the flush is pending.
PollSinkEndNoBoth(p, q, r) ==
    IF IsErr(r) THEN [ss |-> Polling, r |-> r]
    ELSE IF r = "Ready"
    THEN LET t == TTakeSocket(p) IN
         IF ~t.got THEN [ss |-> Polling, r |-> "Err_Sink"]
         ELSE IF q # None
         THEN [ss |-> SSState("Stream", FALSE, None, Some(TGiveSocket(The(q)))), r |-> "Ready"]
         ELSE [ss |-> SSState("Ready", TRUE, None, None), r |-> "Ready"]
    ELSE IF q # None
    THEN [ss |-> Polling, r |-> "Pending"]
    ELSE [ss |-> SSState("Sink", FALSE, Some(p), None), r |-> "Pending"]

\* A poll_sink that puts the socket back after a failed flush.
PollSinkEndRecovered(p, q, r) ==
    IF IsErr(r) THEN [ss |-> SSState("Ready", TRUE, None, None), r |-> r]
    ELSE IF r = "Ready"
    THEN LET t == TTakeSocket(p) IN
         IF ~t.got THEN [ss |-> Polling, r |-> "Err_Sink"]
         ELSE IF q # None
         THEN [ss |-> SSState("Stream", FALSE, None, Some(TGiveSocket(The(q)))), r |-> "Ready"]
         ELSE [ss |-> SSState("Ready", TRUE, None, None), r |-> "Ready"]
    ELSE IF q # None
    THEN LET t == TTakeSocket(p) IN
         IF ~t.got THEN [ss |-> Polling, r |-> "Err_Sink"]
         ELSE [ss |-> SSState("Both", TRUE, Some(t.p), q), r |-> "Pending"]
    ELSE [ss |-> SSState("Sink", FALSE, Some(p), None), r |-> "Pending"]

\* MultipartSinkStream::poll_sink after sink.poll_flush(cx) returned r for
\* the sink p; q is the stream handed in, or None.
PollSinkEnd(p, q, r) ==
    IF IsErr(r) THEN [ss |-> Polling, r |-> r]
    ELSE IF r = "Ready"
    THEN LET t == TTakeSocket(p) IN
         IF ~t.got THEN [ss |-> Polling, r |-> "Err_Sink"]
         ELSE IF q # None
         THEN [ss |-> SSState("Stream", FALSE, None, Some(TGiveSocket(The(q)))), r |-> "Ready"]
         ELSE [ss |-> SSState("Ready", TRUE, None, None), r |-> "Ready"]
    ELSE IF q # None
    THEN LET t == TTakeSocket(p) IN
         IF ~t.got THEN [ss |-> Polling, r |-> "Err_Sink"]
         ELSE [ss |-> SSState("Both", TRUE, Some(t.p), q), r |-> "Pending"]
    ELSE [ss |-> SSState("Sink", FALSE, Some(p), None), r |-> "Pending"]

\* A poll_stream that forgets the sink handed in when the stream yields.
PollStreamEndDropsSink(q, p, r) ==
    IF IsErr(r) THEN [ss |-> Polling, r |-> r]
    ELSE IF r = "Ready"
    THEN LET t == TTakeSocket(q) IN
         IF ~t.got THEN [ss |-> Polling, r |-> "Err_Stream"]
         ELSE [ss |-> SSState("Ready", TRUE, None, None), r |-> "Ready"]
    ELSE IF p # None
    THEN LET t == TTakeSocket(q) IN
         IF ~t.got THEN [ss |-> Polling, r |-> "Err_Stream"]
         ELSE [ss |-> SSState("Both", TRUE, p, Some(t.p)), r |-> "Pending"]
    ELSE [ss |-> SSState("Stream", FALSE, None, Some(q)), r |-> "Pending"]

\* MultipartSinkStream::poll_stream after stream.poll_next(cx) returned r
\* for the stream q; p is the sink handed in, or None.
PollStreamEnd(q, p, r) ==
    IF IsErr(r) THEN [ss |-> Polling, r |-> r]
    ELSE IF r = "Ready"
    THEN LET t == TTakeSocket(q) IN
         IF ~t.got THEN [ss |-> Polling, r |-> "Err_Stream"]
         ELSE IF p # None
         THEN [ss |-> SSState("Sink", FALSE, Some(TGiveSocket(The(p))), None), r |-> "Ready"]
         ELSE [ss |-> SSState("Ready", TRUE, None, None), r |-> "Ready"]
    ELSE IF p # None
    THEN LET t == TTakeSocket(q) IN
         IF ~t.got THEN [ss |-> Polling, r |-> "Err_Stream"]
         ELSE [ss |-> SSState("Both", TRUE, p, Some(t.p)), r |-> "Pending"]
    ELSE [ss |-> SSState("Stream", FALSE, None, Some(q)), r |-> "Pending"]

\* A start_send that puts a send in flight whatever the state.
SSStartSendAlways(s, multipart) ==
    [ss |-> SSState("Sink", FALSE, Some(Obj("Pending", FALSE, Some(NewRequest(multipart)))), None),
     r |-> "Ok"]

\* MultipartSinkStream::start_send(multipart) from state s.
SSStartSendOf(s, multipart) ==
    IF s.inner = "Ready"
    THEN LET a == TSinkStartSend(TSinkNew, multipart) IN
         IF a.r # "Ok" THEN [ss |-> Polling, r |-> a.r]
         ELSE [ss |-> SSState("Sink", FALSE, Some(a.p), None), r |-> "Ok"]
    ELSE IF s.inner = "Stream"
    THEN LET t == TTakeSocket(The(s.stream)) IN
         IF ~t.got THEN [ss |-> Polling, r |-> "Err_Sink"]
         ELSE LET a == TSinkStartSend(TSinkNew, multipart) IN
              IF a.r # "Ok" THEN [ss |-> Polling, r |-> a.r]
              ELSE LET u == TTakeSocket(a.p) IN
                   IF ~u.got THEN [ss |-> Polling, r |-> "Err_Sink"]
                   ELSE [ss |-> SSState("Both", TRUE, Some(u.p), Some(t.p)), r |-> "Ok"]
    ELSE [ss |-> Polling, r |-> "Err_Sink"]

(***************************************************************************)
(* The environment: the MQ library's I/O thread and the peer.              *)
(***************************************************************************)
\* The most frames of a multipart and the most inbound messages followed: a
\* sink-stream, with both directions at once, a controlled stream, with two
\* sockets, and a timeout stream, with its clock, are followed over a
\* shorter run.
LenBound == IF comp \in {"ss", "ctl", "timeout"} THEN MaxSSLen ELSE MaxLen
MsgBound == IF comp \in {"ss", "ctl", "timeout"} THEN MaxSSMsgs ELSE MaxMsgs

\* A frame of the next inbound message becomes readable.
Arrive ==
    /\ comp \in {"resp", "stream", "ss", "ctl", "timeout"}
    /\ \E more \in BOOLEAN :
         LET id == NextArrival(env) IN
         /\ id[1] <= MsgBound
         /\ id[2] <= LenBound
         /\ (id[2] = LenBound => ~more)
         /\ env' = FdEdge([Disturbed(env) EXCEPT
                                   !.inq = Append(env.inq, [msg |-> id, more |-> more]),
                                   !.arrived = Append(env.arrived, [msg |-> id, more |-> more])])
    /\ UNCHANGED <<comp, peer, timer, ctl, req, resp, sink, ss, pc, ctx, ret, hist>>

\* The fd raises a notification for an event the model does not follow (an
\* inbound event seen by a component that only sends).
Notify ==
    /\ comp \in {"req", "sink"}
    /\ ~env.fdsig
    /\ env' = FdEdge(Disturbed(env))
    /\ UNCHANGED <<comp, peer, timer, ctl, req, resp, sink, ss, pc, ctx, ret, hist>>

\* The socket becomes writable: the fd raises a notification.
Writable ==
    /\ ~env.pollout
    /\ env' = FdEdge([Disturbed(env) EXCEPT !.pollout = TRUE])
    /\ UNCHANGED <<comp, peer, timer, ctl, req, resp, sink, ss, pc, ctx, ret, hist>>

\* The socket stops being writable (its pipes are full).
Unwritable ==
    /\ env.pollout
    /\ env' = [Disturbed(env) EXCEPT !.pollout = FALSE]
    /\ UNCHANGED <<comp, peer, timer, ctl, req, resp, sink, ss, pc, ctx, ret, hist>>

(***************************************************************************)
(* The calls.  ctx holds the running call's name and locals, ret the last  *)
(* call that returned and its result, hist what the calls accepted,        *)
(* completed and yielded.                                                  *)
(***************************************************************************)
IdleCtx ==
    [call |-> "none", first |-> TRUE, arg |-> None, sink |-> None, stream |-> None,
     odd |-> FALSE]

\* The running call's loop goes round once more: odd is the parity of the
\* number of its iterations so far.
Round(c) == [c EXCEPT !.odd = ~c.odd]
InitHist ==
    [offered |-> 0, accepted |-> <<>>, completed |-> {}, yielded |-> <<>>,
     handed |-> FALSE, promise |-> "none", inner |-> <<>>, last |-> "none"]

\* An accepted multipart, with the number it was offered under.
Accepted(id, multipart) == [id |-> id, frames |-> multipart]

\* The positions in hist.accepted whose send a returning call completed
\* (done: it returned Ready with a multipart in flight): the multipart in
\* flight is the one accepted last.
Completed(done, h) == IF done THEN {Len(h.accepted)} ELSE {}

Returned(call, r) == [call |-> call, r |-> r]

\* The states the scheduler and the socket can be in when a component is built.
StartEnvs ==
    { [InitEnv EXCEPT !.pollout = po, !.rready = rr, !.wready = wr]
      : po \in BOOLEAN, rr \in BOOLEAN, wr \in BOOLEAN }

(***************************************************************************)
(* A MultipartRequest polled on its own.                                   *)
(***************************************************************************)
InitReq ==
    /\ comp = "req"
    /\ env \in StartEnvs /\ ctl = None /\ timer = None /\ peer = None
    /\ \E n \in 0..MaxLen : /\ req = Some(NewRequest(Multipart(1, n)))
                            /\ hist = [InitHist EXCEPT !.offered = 1,
                                                        !.accepted = <<Accepted(1, Multipart(1, n))>>]
    /\ resp = None /\ sink = None /\ ss = None
    /\ pc = "idle" /\ ctx = IdleCtx /\ ret = Returned("none", "none")

\* MultipartRequest::poll, up to the loop of send.
ReqPoll ==
    /\ comp = "req" /\ pc = "idle"
    /\ \E o \in ReqCheckWrite(The(req), StartCall(env)) :
         /\ req' = Some(o.f) /\ env' = After(o.e, o.r)
         /\ IF o.r = "true"
            THEN /\ pc' = "send" /\ ctx' = [IdleCtx EXCEPT !.call = "poll"]
                 /\ ret' = ret
            ELSE /\ pc' = "idle" /\ ctx' = IdleCtx
                 /\ ret' = Returned("poll", IF o.r = "false" THEN "Pending" ELSE o.r)
    /\ UNCHANGED <<comp, peer, timer, ctl, resp, sink, ss, hist>>

\* MultipartRequest::poll: one iteration of the loop of send, and the return.
ReqSend ==
    /\ comp = "req" /\ pc = "send"
    /\ \E o \in ReqSendIter(The(req), env) :
         /\ env' = After(o.e, o.r)
         /\ IF o.r = "loop"
            THEN /\ req' = Some(o.f) /\ ctx' = Round(ctx) /\ UNCHANGED <<pc, ret, hist>>
            ELSE /\ pc' = "idle" /\ ctx' = IdleCtx
                 /\ ret' = Returned("poll", o.r)
                 /\ IF o.r = "Ready"
                    THEN req' = Some(ReqFinish(o.f))
                    ELSE req' = Some(o.f)
                 /\ hist' = [hist EXCEPT !.completed =
                                 @ \cup Completed(o.r = "Ready" /\ The(req).multipart # None, hist)]
    /\ UNCHANGED <<comp, peer, timer, ctl, resp, sink, ss>>

NextReq == ReqPoll \/ ReqSend \/ Notify \/ Writable \/ Unwritable

SpecReq == InitReq /\ [][NextReq]_vars

(***************************************************************************)
(* A MultipartResponse polled on its own.                                  *)
(***************************************************************************)
InitResp ==
    /\ comp = "resp"
    /\ env \in StartEnvs /\ ctl = None /\ timer = None /\ peer = None
    /\ resp = Some(NewResponse)
    /\ req = None /\ sink = None /\ ss = None
    /\ pc = "idle" /\ ctx = IdleCtx /\ ret = Returned("none", "none")
    /\ hist = InitHist

\* MultipartResponse::poll: check_read.
RespPoll ==
    /\ comp = "resp" /\ pc = "idle"
    /\ \E o \in RespCheckRead(The(resp), StartCall(env)) :
         /\ resp' = Some(o.f) /\ env' = After(o.e, o.r)
         /\ IF o.r = "true"
            THEN /\ pc' = "recv" /\ ctx' = [IdleCtx EXCEPT !.call = "poll"]
                 /\ ret' = ret
            ELSE /\ pc' = "idle" /\ ctx' = IdleCtx
                 /\ ret' = Returned("poll", IF o.r = "false" THEN "Pending" ELSE o.r)
    /\ UNCHANGED <<comp, peer, timer, ctl, req, sink, ss, hist>>

\* MultipartResponse::poll: the head of recv.
RespRecv ==
    /\ comp = "resp" /\ pc = "recv"
    /\ \E o \in RespRecvHead(The(resp), env) :
         /\ resp' = Some(o.f) /\ env' = After(o.e, o.r)
         /\ IF o.r = "loop"
            THEN /\ pc' = "recv_loop" /\ ctx' = [ctx EXCEPT !.first = TRUE]
                 /\ ret' = ret
            ELSE /\ pc' = "idle" /\ ctx' = IdleCtx
                 /\ ret' = Returned("poll", o.r)
    /\ UNCHANGED <<comp, peer, timer, ctl, req, sink, ss, hist>>

\* MultipartResponse::poll: one iteration of the loop of recv, and the return.
RespRecvLoop ==
    /\ comp = "resp" /\ pc = "recv_loop"
    /\ \E o \in RespRecvIter(The(resp), env, ctx.first) :
         /\ env' = After(o.e, o.r)
         /\ IF o.r = "loop"
            THEN /\ resp' = Some(o.f) /\ ctx' = Round([ctx EXCEPT !.first = o.first])
                 /\ UNCHANGED <<pc, ret, hist>>
            ELSE /\ pc' = "idle" /\ ctx' = IdleCtx
                 /\ ret' = Returned("poll", o.r)
                 /\ IF o.r = "Ready"
                    THEN /\ resp' = Some(RespFinish(o.f))
                         /\ hist' = [hist EXCEPT !.yielded = Append(@, The(o.item))]
                    ELSE /\ resp' = Some(o.f) /\ hist' = hist
    /\ UNCHANGED <<comp, peer, timer, ctl, req, sink, ss>>

NextResp == RespPoll \/ RespRecv \/ RespRecvLoop \/ Arrive \/ Writable \/ Unwritable

SpecResp == InitResp /\ [][NextResp]_vars


(***************************************************************************)
(* A MultipartSink (src/async/sink.rs) driven by start_send and            *)
(* poll_complete.  The multipart offered by the k-th start_send is         *)
(* multipart k.                                                            *)
(***************************************************************************)
InitSink ==
    /\ comp = "sink"
    /\ env \in StartEnvs /\ ctl = None /\ timer = None /\ peer = None
    /\ sink = Some(NewSink)
    /\ req = None /\ resp = None /\ ss = None
    /\ pc = "idle" /\ ctx = IdleCtx /\ ret = Returned("none", "none")
    /\ hist = InitHist

\* MultipartSink::start_send, up to the loop of flush.
SinkStartSend ==
    /\ comp = "sink" /\ pc = "idle"
    /\ hist.offered < MaxSends
    /\ \E n \in 0..MaxLen, o \in SinkCheckWrite(StartCall(env)) :
         LET multipart == Multipart(hist.offered + 1, n) IN
         /\ env' = IF o.r = "true" /\ The(sink).multipart = None THEN EndCall(NeedWrite(o.e))
                   ELSE After(o.e, o.r)
         /\ IF o.r = "true" /\ The(sink).multipart = None
            THEN /\ sink' = Some([The(sink) EXCEPT !.multipart = Some(multipart)])
                 /\ hist' = [hist EXCEPT !.offered = @ + 1,
                                         !.accepted = Append(@, Accepted(hist.offered + 1, multipart))]
                 /\ pc' = "idle" /\ ctx' = IdleCtx
                 /\ ret' = Returned("start_send", "Ready")
            ELSE IF o.r = "true"
            THEN /\ pc' = "flush"
                 /\ ctx' = [IdleCtx EXCEPT !.call = "start_send", !.arg = Some(multipart)]
                 /\ hist' = [hist EXCEPT !.offered = @ + 1]
                 /\ UNCHANGED <<sink, ret>>
            ELSE /\ pc' = "idle" /\ ctx' = IdleCtx
                 /\ hist' = [hist EXCEPT !.offered = @ + 1]
                 /\ ret' = Returned("start_send", IF o.r = "false" THEN "NotReady" ELSE o.r)
                 /\ sink' = sink
    /\ UNCHANGED <<comp, peer, timer, ctl, req, resp, ss>>

\* MultipartSink::poll_complete, up to the loop of flush.
SinkPollComplete ==
    /\ comp = "sink" /\ pc = "idle"
    /\ \E o \in SinkCheckWrite(StartCall(env)) :
         /\ env' = After(o.e, o.r)
         /\ IF o.r = "true"
            THEN /\ pc' = "flush" /\ ctx' = [IdleCtx EXCEPT !.call = "poll_complete"]
                 /\ ret' = ret
            ELSE /\ pc' = "idle" /\ ctx' = IdleCtx
                 /\ ret' = Returned("poll_complete", IF o.r = "false" THEN "NotReady" ELSE o.r)
    /\ UNCHANGED <<comp, peer, timer, ctl, req, resp, sink, ss, hist>>

\* One iteration of the loop of flush, and the return of the call that runs it.
SinkFlush ==
    /\ comp = "sink" /\ pc = "flush"
    /\ \E o \in SinkFlushIter(The(sink), env) :
         /\ env' = After(o.e, o.r)
         /\ IF o.r = "loop"
            THEN /\ sink' = Some(o.f) /\ ctx' = Round(ctx) /\ UNCHANGED <<pc, ret, hist>>
            ELSE /\ pc' = "idle" /\ ctx' = IdleCtx
                 /\ ret' = Returned(ctx.call, o.r)
                 /\ IF o.r = "Ready" /\ ctx.call = "start_send"
                    THEN /\ sink' = Some([o.f EXCEPT !.multipart = ctx.arg])
                         /\ hist' = [hist EXCEPT !.accepted = Append(@, Accepted(hist.offered, The(ctx.arg))),
                                                 !.completed = @ \cup Completed(o.done, hist)]
                    ELSE /\ sink' = Some(o.f)
                         /\ hist' = [hist EXCEPT !.completed = @ \cup Completed(o.done, hist)]
    /\ UNCHANGED <<comp, peer, timer, ctl, req, resp, ss>>

NextSink == SinkStartSend \/ SinkPollComplete \/ SinkFlush \/ Notify \/ Writable \/ Unwritable

SpecSink == InitSink /\ [][NextSink]_vars

(***************************************************************************)
(* A MultipartStream (src/async/stream.rs): resp is its field `response`,  *)
(* and the local `response` of poll while a call runs.                     *)
(***************************************************************************)
InitStream ==
    /\ comp = "stream"
    /\ env \in StartEnvs /\ ctl = None /\ timer = None /\ peer = None
    /\ resp = None
    /\ req = None /\ sink = None /\ ss = None
    /\ pc = "idle" /\ ctx = IdleCtx /\ ret = Returned("none", "none")
    /\ hist = InitHist

\* A poll_response that does not keep the response when it is not ready.
StreamReturnForgets(f, e, r, item) ==
    /\ pc' = "idle" /\ ctx' = IdleCtx
    /\ ret' = Returned("poll", IF r = "Pending" THEN "NotReady" ELSE r)
    /\ resp' = None
    /\ env' = EndCall(IF r = "Pending" THEN NeedRead(e) ELSE e)
    /\ hist' = IF r = "Ready"
               THEN [hist EXCEPT !.yielded = Append(@, The(item)), !.last = r]
               ELSE [hist EXCEPT !.last = r]

\* MultipartStream::poll_response after response.poll() returned r.
StreamReturn(f, e, r, item) ==
    /\ pc' = "idle" /\ ctx' = IdleCtx
    /\ ret' = Returned("poll", IF r = "Pending" THEN "NotReady" ELSE r)
    /\ resp' = IF r = "Pending" THEN Some(f) ELSE None
    /\ env' = EndCall(IF r = "Pending" THEN NeedRead(e) ELSE e)
    /\ hist' = IF r = "Ready"
               THEN [hist EXCEPT !.yielded = Append(@, The(item)), !.last = r]
               ELSE [hist EXCEPT !.last = r]

\* MultipartStream::poll: take or make the response, and its check_read.
StreamPoll ==
    /\ comp = "stream" /\ pc = "idle"
    /\ LET response == IF resp = None THEN NewResponse ELSE The(resp) IN
       \E o \in RespCheckRead(response, StartCall(env)) :
         IF o.r = "true"
         THEN /\ pc' = "recv" /\ ctx' = [IdleCtx EXCEPT !.call = "poll"]
              /\ resp' = Some(o.f) /\ env' = After(o.e, o.r)
              /\ UNCHANGED <<ret, hist>>
         ELSE StreamReturn(o.f, o.e, IF o.r = "false" THEN "Pending" ELSE o.r, None)
    /\ UNCHANGED <<comp, peer, timer, ctl, req, sink, ss>>

\* MultipartStream::poll: the head of the response's recv.
StreamRecv ==
    /\ comp = "stream" /\ pc = "recv"
    /\ \E o \in RespRecvHead(The(resp), env) :
         IF o.r = "loop"
         THEN /\ pc' = "recv_loop" /\ ctx' = [ctx EXCEPT !.first = TRUE]
              /\ resp' = Some(o.f) /\ env' = After(o.e, o.r)
              /\ UNCHANGED <<ret, hist>>
         ELSE StreamReturn(o.f, o.e, o.r, None)
    /\ UNCHANGED <<comp, peer, timer, ctl, req, sink, ss>>

\* MultipartStream::poll: one iteration of the loop of the response's recv.
StreamRecvLoop ==
    /\ comp = "stream" /\ pc = "recv_loop"
    /\ \E o \in RespRecvIter(The(resp), env, ctx.first) :
         IF o.r = "loop"
         THEN /\ resp' = Some(o.f) /\ env' = After(o.e, o.r)
              /\ ctx' = Round([ctx EXCEPT !.first = o.first])
              /\ UNCHANGED <<pc, ret, hist>>
         ELSE StreamReturn(IF o.r = "Ready" THEN RespFinish(o.f) ELSE o.f, o.e, o.r, o.item)
    /\ UNCHANGED <<comp, peer, timer, ctl, req, sink, ss>>

NextStream == StreamPoll \/ StreamRecv \/ StreamRecvLoop \/ Arrive \/ Writable \/ Unwritable

SpecStream == InitStream /\ [][NextStream]_vars


(***************************************************************************)
(* A MultipartSinkStream driven by start_send, poll_ready, poll_flush,     *)
(* poll_close and poll_next.  While a call runs, inner is Polling and the  *)
(* sink and the stream moved out of it are the call's locals ctx.sink and  *)
(* ctx.stream.                                                             *)
(***************************************************************************)
InitSS ==
    /\ comp = "ss"
    /\ env \in StartEnvs /\ ctl = None /\ timer = None /\ peer = None
    /\ ss = Some(NewSinkStream)
    /\ req = None /\ resp = None /\ sink = None
    /\ pc = "idle" /\ ctx = IdleCtx /\ ret = Returned("none", "none")
    /\ hist = InitHist

\* What the caller of the sink-stream has been promised: "ready" once
\* poll_ready returned Ready, kept over any poll_next, "broken" when the
\* start_send that follows is refused with Error::Sink.
Promise(h, call, r) ==
    IF call = "poll_next" THEN h.promise
    ELSE IF call = "poll_ready" /\ r = "Ready" THEN "ready"
    ELSE IF call = "start_send" /\ r = "Err_Sink" /\ h.promise = "ready" THEN "broken"
    ELSE "none"

\* A call of the sink-stream returns r, leaving state s and history h.
SSReturn(call, s, r, h) ==
    /\ pc' = "idle" /\ ctx' = IdleCtx
    /\ ss' = Some(s)
    /\ ret' = Returned(call, r)
    /\ hist' = [h EXCEPT !.promise = Promise(h, call, r)]

\* MultipartSinkStream::start_send.
SSStartSend ==
    /\ comp = "ss" /\ pc = "idle"
    /\ hist.offered < MaxSends
    /\ \E n \in 0..MaxSSLen :
         LET multipart == Multipart(hist.offered + 1, n)
             a == SSStartSendOf(The(ss), multipart)
         IN  SSReturn("start_send", a.ss, a.r,
                      [hist EXCEPT !.offered = @ + 1,
                                   !.accepted = IF a.r = "Ok"
                                                THEN Append(@, Accepted(hist.offered + 1, multipart))
                                                ELSE @])
    /\ env' = EndCall(StartCall(env))
    /\ UNCHANGED <<comp, peer, timer, ctl, req, resp, sink>>

\* The sink a poll_flush polls and the stream it hands to poll_sink.
FlushSink(s) == IF s.inner = "Both" THEN TGiveSocket(The(s.sink)) ELSE The(s.sink)
FlushStream(s) == IF s.inner = "Both" THEN s.stream ELSE None

\* poll_flush with no send in flight (state Ready or Stream): the state is
\* put back and the call is Ready.
SSFlushIdleLost(s) == [ss |-> Polling, r |-> "Ready"]
SSFlushIdle(s) == [ss |-> s, r |-> "Ready"]

\* MultipartSinkStream::poll_flush (poll_ready and poll_close call it), up to
\* the loop of the request's send.
SSPollFlush ==
    /\ comp = "ss" /\ pc = "idle"
    /\ \E call \in {"poll_flush", "poll_ready", "poll_close"} :
         LET s == The(ss)
             e0 == StartCall(env)
         IN  IF s.inner \in {"Ready", "Stream"}
             THEN LET a == SSFlushIdle(s) IN
                  SSReturn(call, a.ss, a.r, hist) /\ env' = EndCall(e0)
             ELSE IF s.inner = "Polling"
             THEN SSReturn(call, Polling, "Err_Sink", hist) /\ env' = EndCall(e0)
             ELSE LET p == FlushSink(s)
                      q == FlushStream(s)
                  IN  IF p.o.state = "Pending"
                      THEN \E o \in ReqCheckWrite(The(p.f), e0) :
                             /\ env' = After(o.e, o.r)
                             /\ IF o.r = "true"
                                THEN /\ pc' = "send" /\ ss' = Some(Polling) /\ ret' = ret
                                     /\ hist' = hist
                                     /\ ctx' = [IdleCtx EXCEPT !.call = call, !.stream = q,
                                                   !.sink = Some([p EXCEPT !.f = Some(o.f)])]
                                ELSE LET r == IF o.r = "false" THEN "Pending" ELSE o.r
                                         end == PollSinkEnd(TPolled(p, o.f, r), q, r)
                                     IN  SSReturn(call, end.ss, end.r, hist)
                      ELSE LET r == IF p.o.state = "Ready" THEN "Ready" ELSE "Err_Sink"
                               end == PollSinkEnd(p, q, r)
                           IN  SSReturn(call, end.ss, end.r, hist) /\ env' = EndCall(e0)
    /\ UNCHANGED <<comp, peer, timer, ctl, req, resp, sink>>

\* poll_flush: one iteration of the loop of the request's send, and the return.
SSSend ==
    /\ comp = "ss" /\ pc = "send"
    /\ LET p == The(ctx.sink) IN
       \E o \in ReqSendIter(The(p.f), env) :
         /\ env' = After(o.e, o.r)
         /\ IF o.r = "loop"
            THEN /\ ctx' = Round([ctx EXCEPT !.sink = Some([p EXCEPT !.f = Some(o.f)])])
                 /\ UNCHANGED <<ss, pc, ret, hist>>
            ELSE LET f == IF o.r = "Ready" THEN ReqFinish(o.f) ELSE o.f
                     end == PollSinkEnd(TPolled(p, f, o.r), ctx.stream, o.r)
                 IN  SSReturn(ctx.call, end.ss, end.r,
                              [hist EXCEPT !.completed =
                                  @ \cup Completed(o.r = "Ready" /\ The(p.f).multipart # None, hist)])
    /\ UNCHANGED <<comp, peer, timer, ctl, req, resp, sink>>

\* A poll_next that drops the sink it finds in the state Sink.
NextStreamOfDrops(s) ==
    IF s.inner = "Ready" THEN [q |-> TStreamNew, p |-> None, ok |-> TRUE]
    ELSE IF s.inner = "Sink"
    THEN LET t == TTakeSocket(The(s.sink)) IN
         [q |-> TStreamNew, p |-> None, ok |-> t.got]
    ELSE IF s.inner = "Both"
    THEN [q |-> TGiveSocket(The(s.stream)), p |-> s.sink, ok |-> TRUE]
    ELSE IF s.inner = "Stream" THEN [q |-> The(s.stream), p |-> None, ok |-> TRUE]
    ELSE [q |-> TStreamNew, p |-> None, ok |-> FALSE]

\* The stream a poll_next polls, the sink it hands to poll_stream, and
\* whether the stream could be given the socket.
NextStreamOf(s) ==
    IF s.inner = "Ready" THEN [q |-> TStreamNew, p |-> None, ok |-> TRUE]
    ELSE IF s.inner = "Sink"
    THEN LET t == TTakeSocket(The(s.sink)) IN
         [q |-> TStreamNew, p |-> Some(t.p), ok |-> t.got]
    ELSE IF s.inner = "Both"
    THEN [q |-> TGiveSocket(The(s.stream)), p |-> s.sink, ok |-> TRUE]
    ELSE IF s.inner = "Stream" THEN [q |-> The(s.stream), p |-> None, ok |-> TRUE]
    ELSE [q |-> TStreamNew, p |-> None, ok |-> FALSE]

\* MultipartStream::poll_next, entered: a Ready stream makes its response.
TStreamEnter(q) == IF q.o.state = "Ready" THEN Obj("Pending", FALSE, Some(NewResponse)) ELSE q

\* MultipartSinkStream::poll_next, up to the head of the response's recv.
SSPollNext ==
    /\ comp = "ss" /\ pc = "idle"
    /\ LET s == The(ss)
           e0 == StartCall(env)
           n == NextStreamOf(s)
           q == TStreamEnter(n.q)
       IN  IF ~n.ok
           THEN SSReturn("poll_next", Polling, "Err_Stream", hist) /\ env' = EndCall(e0)
           ELSE IF q.o.state # "Pending"
           THEN LET end == PollStreamEnd(q, n.p, "Err_Stream") IN
                SSReturn("poll_next", end.ss, end.r, hist) /\ env' = EndCall(e0)
           ELSE \E o \in RespCheckRead(The(q.f), e0) :
                  /\ env' = After(o.e, o.r)
                  /\ IF o.r = "true"
                     THEN /\ pc' = "recv" /\ ss' = Some(Polling) /\ ret' = ret
                          /\ hist' = hist
                          /\ ctx' = [IdleCtx EXCEPT !.call = "poll_next", !.sink = n.p,
                                        !.stream = Some([q EXCEPT !.f = Some(o.f)])]
                     ELSE LET r == IF o.r = "false" THEN "Pending" ELSE o.r
                              end == PollStreamEnd(TPolled(q, o.f, r), n.p, r)
                          IN  SSReturn("poll_next", end.ss, end.r, hist)
    /\ UNCHANGED <<comp, peer, timer, ctl, req, resp, sink>>

\* poll_next: the head of the response's recv.
SSRecv ==
    /\ comp = "ss" /\ pc = "recv"
    /\ LET q == The(ctx.stream) IN
       \E o \in RespRecvHead(The(q.f), env) :
         /\ env' = After(o.e, o.r)
         /\ IF o.r = "loop"
            THEN /\ pc' = "recv_loop"
                 /\ ctx' = [ctx EXCEPT !.first = TRUE, !.stream = Some([q EXCEPT !.f = Some(o.f)])]
                 /\ UNCHANGED <<ss, ret, hist>>
            ELSE LET end == PollStreamEnd(TPolled(q, o.f, o.r), ctx.sink, o.r) IN
                 SSReturn("poll_next", end.ss, end.r, hist)
    /\ UNCHANGED <<comp, peer, timer, ctl, req, resp, sink>>

\* poll_next: one iteration of the loop of the response's recv, and the return.
SSRecvLoop ==
    /\ comp = "ss" /\ pc = "recv_loop"
    /\ LET q == The(ctx.stream) IN
       \E o \in RespRecvIter(The(q.f), env, ctx.first) :
         /\ env' = After(o.e, o.r)
         /\ IF o.r = "loop"
            THEN /\ ctx' = Round([ctx EXCEPT !.first = o.first,
                                             !.stream = Some([q EXCEPT !.f = Some(o.f)])])
                 /\ UNCHANGED <<ss, pc, ret, hist>>
            ELSE LET f == IF o.r = "Ready" THEN RespFinish(o.f) ELSE o.f
                     end == PollStreamEnd(TPolled(q, f, o.r), ctx.sink, o.r)
                 IN  SSReturn("poll_next", end.ss, end.r,
                              IF o.r = "Ready"
                              THEN [hist EXCEPT !.yielded = Append(@, The(o.item))]
                              ELSE hist)
    /\ UNCHANGED <<comp, peer, timer, ctl, req, resp, sink>>

NextSS ==
    \/ SSStartSend \/ SSPollFlush \/ SSSend \/ SSPollNext \/ SSRecv \/ SSRecvLoop
    \/ Arrive \/ Writable \/ Unwritable

SpecSS == InitSS /\ [][NextSS]_vars

(***************************************************************************)
(* Every component.                                                        *)
(***************************************************************************)
Init == InitReq \/ InitResp \/ InitSink \/ InitStream \/ InitSS

Next == NextReq \/ NextResp \/ NextSink \/ NextStream \/ NextSS

Spec == Init /\ [][Next]_vars

(***************************************************************************)
(* The sending components alone: a request and the sink.                   *)
(***************************************************************************)
InitSend == InitReq \/ InitSink

NextSend == NextReq \/ NextSink

SpecSend == InitSend /\ [][NextSend]_vars

(***************************************************************************)
(* Where the socket/file pair of a sink-stream is.                         *)
(***************************************************************************)
\* The object p (an Option) holds the pair, itself or in its pending future.
ObjHolds(p) == p # None /\ (The(p).o.sock \/ (The(p).f # None /\ The(The(p).f).sock))

\* The number of places of the sink-stream state s that hold the pair.
Holders(s) ==
    (IF s.sock THEN 1 ELSE 0) + (IF ObjHolds(s.sink) THEN 1 ELSE 0)
        + (IF ObjHolds(s.stream) THEN 1 ELSE 0)

\* C1: after every return of a sink-stream call, error returns included, the
\* socket/file pair is in exactly one place: the state itself, the sink or
\* the stream; never in two, never lost.
C1_PairInOnePlace == (comp = "ss" /\ pc = "idle") => Holders(The(ss)) = 1

\* C2: after every return of a sink-stream call, error returns included, the
\* state is not the hand-over state Polling.
C2_NeverLeftPolling == (comp = "ss" /\ pc = "idle") => The(ss).inner # "Polling"

(***************************************************************************)
(* What a completed send put on the wire.                                  *)
(***************************************************************************)
\* The frames of the multipart offered under id, as the socket was given them.
WireOf(id) == SelectSeq(env.wire, LAMBDA w : w.msg[1] = id)

\* The frames of multipart m in order, DONTWAIT on all, SNDMORE on all but the last.
Framed(m) ==
    [i \in 1..Len(m) |->
        [msg |-> m[i],
         flags |-> IF i = Len(m) THEN {"DONTWAIT"} ELSE {"DONTWAIT", "SNDMORE"}]]

\* C3: for every multipart whose send completed (the request returned Ready,
\* the sink's flush completed), the socket was given exactly its frames, in
\* order, each with DONTWAIT, SNDMORE on all but the last, and the completion
\* came only after the last frame was accepted.
C3_CompletedSendOnWire ==
    \A i \in hist.completed :
        WireOf(hist.accepted[i].id) = Framed(hist.accepted[i].frames)

C3_Witness ==
    \E i \in hist.completed : Len(hist.accepted[i].frames) = MaxLen

(***************************************************************************)
(* What the receiving side yields, and what the sink puts on the wire.     *)
(***************************************************************************)
\* Sequence p is a prefix of sequence q.
IsPrefix(p, q) == Len(p) <= Len(q) /\ \A i \in 1..Len(p) : p[i] = q[i]

\* The concatenation of the sequences of the sequence ss_.
RECURSIVE Concat(_)
Concat(ss_) == IF ss_ = <<>> THEN <<>> ELSE Head(ss_) \o Concat(Tail(ss_))

\* The frames of message m that have arrived.
ArrivedOf(m) == SelectSeq(env.arrived, LAMBDA a : a.msg[1] = m)

\* Multipart y is one whole message: all its frames, in order, the last one
\* the only one without the more-follows bit.
WholeMessage(y) ==
    /\ y # <<>>
    /\ y = ArrivedOf(y[1].msg[1])
    /\ \A i \in 1..Len(y) : y[i].more <=> (i < Len(y))

\* C4: when a MultipartResponse returns Ready, what it yields is exactly one
\* complete message: nonempty, its frames in arrival order, the more-follows
\* bit on all but the last; never a proper prefix of a message.
C4_YieldsWholeMessage ==
    comp = "resp" =>
        /\ Len(hist.yielded) <= 1
        /\ \A i \in 1..Len(hist.yielded) : WholeMessage(hist.yielded[i])

C4_Witness ==
    /\ comp = "resp" /\ ret = Returned("poll", "Ready")
    /\ Len(hist.yielded) = 1 /\ Len(hist.yielded[1]) = MaxLen

\* C5: the frames the socket was given by a MultipartSink are the frames of
\* the accepted multiparts, concatenated in acceptance order (so far as they
\* were sent): no accepted multipart is dropped or overwritten before it is
\* completely sent, and no two multiparts interleave.
C5_WireIsAcceptedInOrder ==
    comp = "sink" =>
        IsPrefix([i \in 1..Len(env.wire) |-> env.wire[i].msg],
                 Concat([i \in 1..Len(hist.accepted) |-> hist.accepted[i].frames]))

\* C6: the multiparts a MultipartStream yields are the inbound messages in
\* arrival order, each exactly once and whole: none skipped, duplicated,
\* split or merged.
C6_YieldsArrivalsInOrder ==
    comp = "stream" =>
        /\ IsPrefix(Concat(hist.yielded), env.arrived)
        /\ \A i \in 1..Len(hist.yielded) : WholeMessage(hist.yielded[i])

(***************************************************************************)
(* The futures under an executor: a task is polled again only when it was  *)
(* woken, and a call that runs keeps running.                              *)
(***************************************************************************)
ReqPollWoken == env.woken /\ ReqPoll
RespPollWoken == env.woken /\ RespPoll

NextRespFair == RespPollWoken \/ RespRecv \/ RespRecvLoop \/ Arrive \/ Writable \/ Unwritable

SpecRespFair ==
    /\ InitResp /\ [][NextRespFair]_vars
    /\ WF_vars(RespPollWoken) /\ WF_vars(RespRecv) /\ WF_vars(RespRecvLoop)

NextFair ==
    \/ ReqPollWoken \/ ReqSend \/ Notify
    \/ SinkStartSend \/ SinkPollComplete \/ SinkFlush
    \/ NextRespFair

InitFair == InitReq \/ InitResp \/ InitSink

SpecFair ==
    /\ InitFair /\ [][NextFair]_vars
    /\ WF_vars(ReqPollWoken) /\ WF_vars(ReqSend)
    /\ WF_vars(RespPollWoken) /\ WF_vars(RespRecv) /\ WF_vars(RespRecvLoop)
    /\ WF_vars(SinkFlush)

\* A response's poll returned Pending and a complete message can be read.
RespPendingReadable ==
    /\ comp = "resp" /\ pc = "idle" /\ ret = Returned("poll", "Pending")
    /\ \E i \in 1..Len(env.inq) : ~env.inq[i].more

C8_QuietThenAsleep ==
    [](comp \in {"req", "resp"} /\ env.quiet /\ ~POLLIN(env) /\ ~POLLOUT(env))
        => <>[](pc = "idle" /\ ~env.woken)

\* C9: a call that has started returns: no poll, start_send or poll_complete
\* loops inside the call waiting for writability or for further frames.
C9_CallReturns == (pc # "idle") ~> (pc = "idle")

\* C10: no call of a request, a response or the sink returns the library's
\* would-block (EAGAIN) as an error.
C10_NoWouldBlockError == ret.r # "Err_EAGAIN"

(***************************************************************************)
(* The futures with their owner taking the socket/file pair away and       *)
(* giving it back between two polls.                                       *)
(***************************************************************************)
\* take_socket() called on the request or the response between two polls.
TakeSocket ==
    /\ pc = "idle"
    /\ \/ /\ comp = "req" /\ The(req).sock
          /\ req' = Some(ReqTakeSocket(The(req))) /\ resp' = resp
       \/ /\ comp = "resp" /\ The(resp).sock
          /\ resp' = Some(RespTakeSocket(The(resp))) /\ req' = req
    /\ ret' = Returned("take_socket", "Some")
    /\ UNCHANGED <<comp, peer, timer, ctl, env, sink, ss, pc, ctx, hist>>

\* give_socket(sock, file) called on the request or the response that was
\* polled without the pair; hist.handed remembers that this happened.
GiveSocket ==
    /\ pc = "idle" /\ ret = Returned("poll", "Err_Reused")
    /\ \/ /\ comp = "req" /\ ~The(req).sock /\ The(req).multipart # None
          /\ req' = Some(ReqGiveSocket(The(req))) /\ resp' = resp
       \/ /\ comp = "resp" /\ ~The(resp).sock /\ hist.yielded = <<>>
          /\ resp' = Some(RespGiveSocket(The(resp))) /\ req' = req
    /\ ret' = Returned("give_socket", "Ok")
    /\ hist' = [hist EXCEPT !.handed = TRUE]
    /\ UNCHANGED <<comp, peer, timer, ctl, env, sink, ss, pc, ctx>>

InitHandOver == InitReq \/ InitResp

NextHandOver == NextReq \/ NextResp \/ TakeSocket \/ GiveSocket

SpecHandOver == InitHandOver /\ [][NextHandOver]_vars

\* A poll of a request without the pair: Reused, no MQ call, frames kept.
ReqPollReused ==
    (ReqPoll /\ ~The(req).sock) =>
        /\ pc' = "idle" /\ ret' = Returned("poll", "Err_Reused")
        /\ env'.wire = env.wire /\ env'.fdsig = env.fdsig
        /\ The(req').multipart = The(req).multipart

\* A poll of a response without the pair: Reused, no MQ call, frames kept.
RespPollReused ==
    (RespPoll /\ ~The(resp).sock) =>
        /\ pc' = "idle" /\ ret' = Returned("poll", "Err_Reused")
        /\ env'.inq = env.inq /\ env'.fdsig = env.fdsig
        /\ The(resp').multipart = The(resp).multipart

\* What a future that was given the pair back completes with: the request
\* has sent each frame once, in order; the response yields a whole message.
ResumedWhole ==
    /\ \A i \in hist.completed :
           WireOf(hist.accepted[i].id) = Framed(hist.accepted[i].frames)
    /\ \A i \in 1..Len(hist.yielded) : WholeMessage(hist.yielded[i])

\* C11: a poll of a MultipartRequest or MultipartResponse that does not hold
\* the socket/file pair (taken by take_socket, or handed out on completion)
\* fails with Reused, makes no send or receive and leaves the remaining
\* (accumulated) frames unchanged; after give_socket the operation resumes
\* and completes with every frame sent exactly once.
C11_ReusedKeepsFrames == []ResumedWhole /\ [][ReqPollReused /\ RespPollReused]_vars

C11_Witness ==
    /\ comp = "req" /\ hist.handed /\ ret = Returned("poll", "Ready")
    /\ hist.completed = {1} /\ Len(hist.accepted[1].frames) = MaxLen

\* C12: a send of a multipart with no frame never completes successfully
\* (it fails with EmptyMultipart): no completed multipart is empty.
C12_EmptyNeverCompletes ==
    \A i \in hist.completed : hist.accepted[i].frames # <<>>

(***************************************************************************)
(* The calls of a sink-stream, one by one.                                 *)
(***************************************************************************)
\* The sink of state s holds a send in flight.
SendInFlight(s) == s.sink # None /\ The(s.sink).o.state = "Pending"

\* C13: start_send on a sink-stream is accepted, putting a send in flight,
\* exactly when no send is in flight (state Ready or Stream); in the states
\* Sink, Both and Polling it fails with Error::Sink and accepts nothing.
C13_StartSendWhenReady ==
    [][SSStartSend =>
         IF The(ss).inner \in {"Ready", "Stream"}
         THEN /\ ret' = Returned("start_send", "Ok")
              /\ The(ss').inner \in {"Sink", "Both"} /\ SendInFlight(The(ss'))
              /\ Len(hist'.accepted) = Len(hist.accepted) + 1
         ELSE /\ ret' = Returned("start_send", "Err_Sink")
              /\ hist'.accepted = hist.accepted]_vars

C13_Witness ==
    /\ comp = "ss" /\ ret = Returned("start_send", "Err_Sink")
    /\ Len(hist.accepted) = 1 /\ hist.offered = 2


(***************************************************************************)
(* C14: whenever poll_ready of the sink-stream returned Ready, a           *)
(* start_send that follows it is not refused with Error::Sink, whatever    *)
(* number of poll_next calls were made in between.                         *)
(***************************************************************************)
C14_ReadyThenAccepted == hist.promise # "broken"


(***************************************************************************)
(* C15: in state Ready or Stream, poll_ready and poll_flush of the         *)
(* sink-stream return Ready, do no I/O and leave the state as it was, so   *)
(* that a repeated call has the effect of one call.                        *)
(***************************************************************************)
\* What I/O changes: the socket's buffers and event mask, the notification
\* fd, and the scheduler's readiness and registrations.
IO(e) == <<e.inq, e.arrived, e.wire, e.pollout, e.fdsig,
           e.rready, e.wready, e.rarmed, e.warmed>>

FlushIdleStep ==
    (SSPollFlush /\ The(ss).inner \in {"Ready", "Stream"}) =>
        /\ pc' = "idle" /\ ret'.r = "Ready"
        /\ ss' = ss
        /\ IO(env') = IO(env)
        /\ EndCall(StartCall(env')) = env'

C15_IdleFlushIsNoOp == [][FlushIdleStep]_vars

C15_Witness ==
    /\ comp = "ss" /\ pc = "idle"
    /\ ret = Returned("poll_flush", "Ready")
    /\ The(ss).inner = "Stream" /\ hist.accepted = <<>>


(***************************************************************************)
(* C16: poll_close of the sink-stream returns Ready only once every frame  *)
(* of the multipart in flight has been sent; once it has returned Ready    *)
(* the sink holds the socket no longer and no later start_send is          *)
(* accepted.                                                               *)
(***************************************************************************)
CloseFlushedAll ==
    (comp = "ss" /\ pc = "idle" /\ ret = Returned("poll_close", "Ready")) =>
        /\ hist.completed = 1..Len(hist.accepted)
        /\ \A i \in hist.completed : WireOf(hist.accepted[i].id) = Framed(hist.accepted[i].frames)
        /\ The(ss).sink = None

\* The start_send that directly follows a poll_close that returned Ready.
SendAfterClose ==
    (SSStartSend /\ ret = Returned("poll_close", "Ready")) => ret'.r # "Ok"

C16_CloseIsFinal == []CloseFlushedAll /\ [][SendAfterClose]_vars


(***************************************************************************)
(* C17: once a poll of a multipart stream (MultipartStream, or the stream  *)
(* side of the sink-stream) has returned an error, no later poll of that   *)
(* stream yields an item.  Stated for the poll that directly follows the   *)
(* failed one: while the last return is a poll's error, no step returns a  *)
(* poll with an item.                                                      *)
(***************************************************************************)
StreamCalls == {"poll", "poll_next"}

YieldAfterError ==
    /\ comp \in {"stream", "ss"}
    /\ ret.call \in StreamCalls /\ IsErr(ret.r)
    /\ ret'.call \in StreamCalls /\ ret'.r = "Ready"
    /\ Len(hist'.yielded) = Len(hist.yielded) + 1

C17_ErrorEndsStream == [][~YieldAfterError]_vars


(***************************************************************************)
(* C18: when the send driven by the sink-stream fails with an MQ error,    *)
(* poll_flush / poll_ready returns that error, and from then on every      *)
(* start_send is rejected with an error and no further frame is written    *)
(* to the socket.                                                          *)
(***************************************************************************)
\* The sink-stream after a failed call: nothing holds the socket.
SSFailed == comp = "ss" /\ pc = "idle" /\ The(ss).inner = "Polling"

\* The MQ errors with which the send may have failed in a step of the send
\* loop: those of the outcomes of the send that lead to the step's socket.
SendErrors ==
    {o.r : o \in {x \in ReqSendIter(The(The(ctx.sink).f), env) :
                     IsErr(x.r) /\ env' = After(x.e, x.r)}}

SendFailStep ==
    (SSSend /\ SendErrors # {}) =>
        /\ ret'.call = ctx.call /\ ret'.r \in SendErrors
        /\ SSFailed'

FailedStep ==
    SSFailed => /\ SSFailed'
                /\ env'.wire = env.wire
                /\ SSStartSend => IsErr(ret'.r)

C18_SendErrorIsFinal == [][SendFailStep /\ FailedStep]_vars

C18_Witness ==
    /\ SSFailed
    /\ ret = Returned("poll_flush", "Err_Zmq")
    /\ Len(hist.accepted) = 1 /\ hist.completed = {}


(***************************************************************************)
(* A ControlledStream (src/async/stream.rs): a data stream, here a         *)
(* MultipartStream on the socket env with its response in resp, and a      *)
(* control MultipartStream on a socket of its own.  ctl holds the control  *)
(* stream's response (control), its socket (cenv), the local `stop` of the *)
(* last poll and the multipart the control stream yielded in it (item).    *)
(* The first frame of a control message tells whether the handler's        *)
(* should_stop answers true for it.                                        *)
(***************************************************************************)
NewControl(e) == [control |-> None, cenv |-> e, stop |-> FALSE, item |-> None]

\* ControlHandler::should_stop of the handler followed here.
ShouldStop(multipart) == multipart[1].msg[3] = "STOP"

\* A poll that never stops the data stream.
StopOfNever(r, item) == FALSE

\* A poll that stops the data stream whatever the control stream came to.
StopOfAlways(r, item) == TRUE

\* The local `stop` of ControlledStream::poll for the outcome r of the
\* control stream's poll: NotReady ("Pending") is false, the end of the
\* stream ("End") is true, an item asks the handler.  The control stream is
\* a MultipartStream, whose poll never comes to "End".
StopOf(r, item) == r = "End" \/ (r = "Ready" /\ ShouldStop(The(item)))

\* Both sockets only receive: the scheduler may or may not hold a read
\* readiness for them when the stream is built.
InitCtl ==
    /\ comp = "ctl"
    /\ \E rr \in BOOLEAN : env = [InitEnv EXCEPT !.rready = rr]
    /\ \E rr \in BOOLEAN : ctl = Some(NewControl([InitEnv EXCEPT !.rready = rr]))
    /\ timer = None /\ peer = None
    /\ resp = None
    /\ req = None /\ sink = None /\ ss = None
    /\ pc = "idle" /\ ctx = IdleCtx /\ ret = Returned("none", "none")
    /\ hist = InitHist

\* A frame of the next control message becomes readable on the control
\* socket; its first frame says whether it is a stop message.
CtlArrive ==
    /\ comp = "ctl"
    /\ \E more \in BOOLEAN, word \in {"STOP", "GO"} :
         LET c == The(ctl)
             id == NextArrival(c.cenv)
             frame == [msg |-> <<id[1], id[2], word>>, more |-> more]
         IN  /\ id[1] <= MsgBound
             /\ id[2] <= LenBound
             /\ (id[2] = LenBound => ~more)
             /\ ctl' = Some([c EXCEPT !.cenv = FdEdge([Disturbed(c.cenv) EXCEPT
                                           !.inq = Append(c.cenv.inq, frame),
                                           !.arrived = Append(c.cenv.arrived, frame)])])
    /\ UNCHANGED <<comp, peer, timer, env, req, resp, sink, ss, pc, ctx, ret, hist>>

\* ControlledStream::poll once control.poll() came to r with the control
\* response f and socket e: an error is returned, a stop ends the stream,
\* anything else goes on to the data stream.
ControlEnd(f, e, r, item) ==
    LET stop == StopOf(r, item)
        c == [control |-> IF r = "Pending" THEN Some(f) ELSE None,
              cenv |-> EndCall(IF r = "Pending" THEN NeedRead(e) ELSE e),
              stop |-> ~IsErr(r) /\ stop,
              item |-> item]
    IN  /\ ctl' = Some(c)
        /\ IF IsErr(r)
           THEN /\ pc' = "idle" /\ ctx' = IdleCtx /\ ret' = Returned("poll", r)
                /\ hist' = [hist EXCEPT !.last = r]
           ELSE IF stop
           THEN /\ pc' = "idle" /\ ctx' = IdleCtx /\ ret' = Returned("poll", "End")
                /\ hist' = [hist EXCEPT !.last = r]
           ELSE /\ pc' = "data" /\ ctx' = [IdleCtx EXCEPT !.call = "poll"] /\ ret' = ret
                /\ hist' = hist

\* ControlledStream::poll: the control stream takes or makes its response,
\* and its check_read.
CtlPoll ==
    /\ comp = "ctl" /\ pc = "idle"
    /\ LET c == The(ctl)
           response == IF c.control = None THEN NewResponse ELSE The(c.control)
       IN  \E o \in RespCheckRead(response, StartCall(c.cenv)) :
             IF o.r = "true"
             THEN /\ pc' = "control_recv" /\ ctx' = [IdleCtx EXCEPT !.call = "poll"]
                  /\ ctl' = Some([control |-> Some(o.f), cenv |-> o.e,
                                  stop |-> FALSE, item |-> None])
                  /\ UNCHANGED <<ret, hist>>
             ELSE ControlEnd(o.f, o.e, IF o.r = "false" THEN "Pending" ELSE o.r, None)
    /\ env' = StartCall(env)
    /\ UNCHANGED <<comp, peer, timer, req, resp, sink, ss>>

\* The control stream's poll: the head of its response's recv.
CtlRecv ==
    /\ comp = "ctl" /\ pc = "control_recv"
    /\ LET c == The(ctl) IN
       \E o \in RespRecvHead(The(c.control), c.cenv) :
         IF o.r = "loop"
         THEN /\ pc' = "control_loop" /\ ctx' = [ctx EXCEPT !.first = TRUE]
              /\ ctl' = Some([c EXCEPT !.control = Some(o.f), !.cenv = o.e])
              /\ UNCHANGED <<ret, hist>>
         ELSE ControlEnd(o.f, o.e, o.r, None)
    /\ UNCHANGED <<comp, peer, timer, env, req, resp, sink, ss>>

\* The control stream's poll: one iteration of the loop of its response's recv.
CtlRecvLoop ==
    /\ comp = "ctl" /\ pc = "control_loop"
    /\ LET c == The(ctl) IN
       \E o \in RespRecvIter(The(c.control), c.cenv, ctx.first) :
         IF o.r = "loop"
         THEN /\ ctl' = Some([c EXCEPT !.control = Some(o.f), !.cenv = o.e])
              /\ ctx' = Round([ctx EXCEPT !.first = o.first])
              /\ UNCHANGED <<pc, ret, hist>>
         ELSE ControlEnd(IF o.r = "Ready" THEN RespFinish(o.f) ELSE o.f, o.e, o.r, o.item)
    /\ UNCHANGED <<comp, peer, timer, env, req, resp, sink, ss>>

\* ControlledStream::poll goes on to self.stream.poll(): the data stream
\* takes or makes its response, and its check_read.
DataPoll ==
    /\ comp = "ctl" /\ pc = "data"
    /\ LET response == IF resp = None THEN NewResponse ELSE The(resp) IN
       \E o \in RespCheckRead(response, env) :
         IF o.r = "true"
         THEN /\ pc' = "data_recv" /\ ctx' = ctx
              /\ resp' = Some(o.f) /\ env' = After(o.e, o.r)
              /\ UNCHANGED <<ret, hist>>
         ELSE StreamReturn(o.f, o.e, IF o.r = "false" THEN "Pending" ELSE o.r, None)
    /\ UNCHANGED <<comp, peer, timer, ctl, req, sink, ss>>

\* The data stream's poll: the head of its response's recv.
DataRecv ==
    /\ comp = "ctl" /\ pc = "data_recv"
    /\ \E o \in RespRecvHead(The(resp), env) :
         IF o.r = "loop"
         THEN /\ pc' = "data_loop" /\ ctx' = [ctx EXCEPT !.first = TRUE]
              /\ resp' = Some(o.f) /\ env' = After(o.e, o.r)
              /\ UNCHANGED <<ret, hist>>
         ELSE StreamReturn(o.f, o.e, o.r, None)
    /\ UNCHANGED <<comp, peer, timer, ctl, req, sink, ss>>

\* The data stream's poll: one iteration of the loop of its response's recv.
DataRecvLoop ==
    /\ comp = "ctl" /\ pc = "data_loop"
    /\ \E o \in RespRecvIter(The(resp), env, ctx.first) :
         IF o.r = "loop"
         THEN /\ resp' = Some(o.f) /\ env' = After(o.e, o.r)
              /\ ctx' = Round([ctx EXCEPT !.first = o.first])
              /\ UNCHANGED <<pc, ret, hist>>
         ELSE StreamReturn(IF o.r = "Ready" THEN RespFinish(o.f) ELSE o.f, o.e, o.r, o.item)
    /\ UNCHANGED <<comp, peer, timer, ctl, req, sink, ss>>

NextCtl ==
    \/ CtlPoll \/ CtlRecv \/ CtlRecvLoop \/ DataPoll \/ DataRecv \/ DataRecvLoop
    \/ Arrive \/ CtlArrive

SpecCtl == InitCtl /\ [][NextCtl]_vars


(***************************************************************************)
(* C19: ControlledStream.poll polls the control stream before the data     *)
(* stream; when the control stream yields a multipart for which            *)
(* should_stop is true, that poll returns the end of the stream without    *)
(* polling the data stream, also when data messages are ready: no queued   *)
(* data message is consumed or yielded by that poll.                       *)
(***************************************************************************)
\* The data stream is left alone: its response, its socket and what it has
\* yielded are as before.
DataUntouched == resp' = resp /\ IO(env') = IO(env) /\ hist'.yielded = hist.yielded

\* The control stream yielded a multipart that stops the stream.
StopItem(c) == c.item # None /\ ShouldStop(The(c.item))

\* The steps of the control stream's poll leave the data stream alone.
ControlStep == (CtlPoll \/ CtlRecv \/ CtlRecvLoop) => DataUntouched

\* The step in which the control stream yields a stopping multipart returns
\* the end of the stream.
StopStep ==
    (comp = "ctl" /\ ~StopItem(The(ctl)) /\ StopItem(The(ctl'))) =>
        /\ pc' = "idle" /\ ret' = Returned("poll", "End")
        /\ DataUntouched

\* The data stream is polled only in a call whose control poll is over and
\* did not stop the stream.
DataPolledAfterControl ==
    (comp = "ctl" /\ pc \in {"data", "data_recv", "data_loop"}) =>
        (~StopItem(The(ctl)) /\ ~The(ctl).stop)

C19_StopBeforeData == []DataPolledAfterControl /\ [][ControlStep /\ StopStep]_vars

C19_Witness ==
    /\ comp = "ctl" /\ pc = "idle"
    /\ ret = Returned("poll", "End") /\ The(ctl).stop
    /\ env.inq # <<>> /\ hist.yielded = <<>>


(***************************************************************************)
(* C21: when the control stream is Pending, or yields a multipart for      *)
(* which should_stop is false, ControlledStream.poll returns what the poll *)
(* of the data stream returns in that call; a control multipart goes to    *)
(* the handler and is never yielded as a data item.                        *)
(***************************************************************************)
\* The control poll ends the call only with an error or on a stopping
\* multipart: Pending and any other multipart go on to the data stream.
ControlGoesOn ==
    ((CtlPoll \/ CtlRecv \/ CtlRecvLoop) /\ pc' = "idle") =>
        (IsErr(ret'.r) \/ (ret'.r = "End" /\ StopItem(The(ctl'))))

\* The steps of the data stream's poll leave the control side alone, and
\* what the call returns is what that poll came to.
DataStep ==
    (DataPoll \/ DataRecv \/ DataRecvLoop) =>
        /\ ctl' = ctl
        /\ pc' = "idle" =>
             /\ ret'.call = "poll" /\ ret'.r \in {"NotReady", "Ready", "Err_Zmq", "Err_EAGAIN", "Err_Reused"}
             /\ (ret'.r = "Ready") = (Len(hist'.yielded) = Len(hist.yielded) + 1)
             /\ (ret'.r # "Ready") => hist'.yielded = hist.yielded

\* Every frame yielded is a frame that arrived on the data socket.
DataItemsOnly ==
    \A i \in 1..Len(hist.yielded) : \A j \in 1..Len(hist.yielded[i]) :
        \E k \in 1..Len(env.arrived) : env.arrived[k] = hist.yielded[i][j]

C21_ControlPassesData == []DataItemsOnly /\ [][ControlGoesOn /\ DataStep]_vars

C21_Witness ==
    /\ comp = "ctl" /\ pc = "idle" /\ ret = Returned("poll", "Ready")
    /\ The(ctl).item # None /\ ~StopItem(The(ctl))
    /\ Len(hist.yielded) = 1


(***************************************************************************)
(* An EndingStream (src/async/stream.rs) over a MultipartStream on the     *)
(* socket env, with the stream's response in resp.  The first frame of a   *)
(* message tells whether the end handler's should_stop answers true for    *)
(* it.  hist.inner is what the inner stream yielded, hist.yielded what the *)
(* EndingStream yielded.                                                   *)
(***************************************************************************)
InitEnd ==
    /\ comp = "end"
    /\ \E rr \in BOOLEAN : env = [InitEnv EXCEPT !.rready = rr]
    /\ resp = None /\ ctl = None /\ timer = None /\ peer = None
    /\ req = None /\ sink = None /\ ss = None
    /\ pc = "idle" /\ ctx = IdleCtx /\ ret = Returned("none", "none")
    /\ hist = InitHist

\* A frame of the next inbound message becomes readable; the first frame of
\* a message says whether it is the sentinel.
EndArrive ==
    /\ comp = "end"
    /\ \E more \in BOOLEAN, word \in {"STOP", "GO"} :
         LET id == NextArrival(env)
             frame == [msg |-> <<id[1], id[2], word>>, more |-> more]
         IN  /\ id[1] <= MsgBound
             /\ id[2] <= LenBound
             /\ (id[2] = LenBound => ~more)
             /\ (id[2] > 1 => word = "GO")
             /\ env' = FdEdge([Disturbed(env) EXCEPT
                                   !.inq = Append(env.inq, frame),
                                   !.arrived = Append(env.arrived, frame)])
    /\ UNCHANGED <<comp, peer, timer, ctl, req, resp, sink, ss, pc, ctx, ret, hist>>

\* An EndingStream that passes the sentinel on.
EndOfNever(r, item) == FALSE

\* An EndingStream that ends on an error of the inner stream too.
EndOfSwallows(r, item) == IsErr(r) \/ (r = "Ready" /\ ShouldStop(The(item)))

\* EndingStream::poll: whether the outcome r of the inner poll ends the
\* stream: an item for which the handler's should_stop is true.
EndOf(r, item) == r = "Ready" /\ ShouldStop(The(item))

\* EndingStream::poll after self.stream.poll() came to r.
EndReturn(f, e, r, item) ==
    LET stop == EndOf(r, item) IN
    /\ pc' = "idle" /\ ctx' = IdleCtx
    /\ ret' = Returned("poll", IF r = "Pending" THEN "NotReady"
                               ELSE IF stop THEN "End" ELSE r)
    /\ resp' = IF r = "Pending" THEN Some(f) ELSE None
    /\ env' = EndCall(IF r = "Pending" THEN NeedRead(e) ELSE e)
    /\ hist' = IF r = "Ready"
               THEN [hist EXCEPT !.inner = Append(@, The(item)),
                                 !.yielded = IF stop THEN @ ELSE Append(@, The(item)),
                                 !.last = r]
               ELSE [hist EXCEPT !.last = r]

\* EndingStream::poll: the inner stream takes or makes its response, and
\* its check_read.
EndPoll ==
    /\ comp = "end" /\ pc = "idle"
    /\ LET response == IF resp = None THEN NewResponse ELSE The(resp) IN
       \E o \in RespCheckRead(response, StartCall(env)) :
         IF o.r = "true"
         THEN /\ pc' = "recv" /\ ctx' = [IdleCtx EXCEPT !.call = "poll"]
              /\ resp' = Some(o.f) /\ env' = After(o.e, o.r)
              /\ UNCHANGED <<ret, hist>>
         ELSE EndReturn(o.f, o.e, IF o.r = "false" THEN "Pending" ELSE o.r, None)
    /\ UNCHANGED <<comp, peer, timer, ctl, req, sink, ss>>

\* The inner stream's poll: the head of its response's recv.
EndRecv ==
    /\ comp = "end" /\ pc = "recv"
    /\ \E o \in RespRecvHead(The(resp), env) :
         IF o.r = "loop"
         THEN /\ pc' = "recv_loop" /\ ctx' = [ctx EXCEPT !.first = TRUE]
              /\ resp' = Some(o.f) /\ env' = After(o.e, o.r)
              /\ UNCHANGED <<ret, hist>>
         ELSE EndReturn(o.f, o.e, o.r, None)
    /\ UNCHANGED <<comp, peer, timer, ctl, req, sink, ss>>

\* The inner stream's poll: one iteration of the loop of its response's recv.
EndRecvLoop ==
    /\ comp = "end" /\ pc = "recv_loop"
    /\ \E o \in RespRecvIter(The(resp), env, ctx.first) :
         IF o.r = "loop"
         THEN /\ resp' = Some(o.f) /\ env' = After(o.e, o.r)
              /\ ctx' = Round([ctx EXCEPT !.first = o.first])
              /\ UNCHANGED <<pc, ret, hist>>
         ELSE EndReturn(IF o.r = "Ready" THEN RespFinish(o.f) ELSE o.f, o.e, o.r, o.item)
    /\ UNCHANGED <<comp, peer, timer, ctl, req, sink, ss>>

NextEnd == EndPoll \/ EndRecv \/ EndRecvLoop \/ EndArrive

SpecEnd == InitEnd /\ [][NextEnd]_vars


(***************************************************************************)
(* C22: EndingStream yields every multipart of the inner stream, in order  *)
(* and unchanged, up to but not including the first one for which          *)
(* should_stop is true; on that multipart it returns the end of the        *)
(* stream, and the sentinel multipart itself is never yielded.             *)
(***************************************************************************)
\* The place of the first sentinel in s, or Len(s) + 1 when it has none.
FirstStop(s) ==
    LET stops == {i \in 1..Len(s) : ShouldStop(s[i])} IN
    IF stops = {} THEN Len(s) + 1
    ELSE CHOOSE i \in stops : \A j \in stops : i <= j

YieldedUpToSentinel ==
    comp = "end" =>
        LET n == FirstStop(hist.inner) IN
        /\ Len(hist.yielded) >= n - 1
        /\ SubSeq(hist.yielded, 1, n - 1) = SubSeq(hist.inner, 1, n - 1)
        /\ (n > Len(hist.inner) => hist.yielded = hist.inner)
        /\ \A i \in 1..Len(hist.yielded) : ~ShouldStop(hist.yielded[i])

\* The poll in which the inner stream yields a sentinel returns the end of
\* the stream and yields nothing.
SentinelStep ==
    (comp = "end" /\ Len(hist'.inner) = Len(hist.inner) + 1
                  /\ ShouldStop(hist'.inner[Len(hist'.inner)])) =>
        (ret' = Returned("poll", "End") /\ hist'.yielded = hist.yielded)

C22_EndsAtSentinel == []YieldedUpToSentinel /\ [][SentinelStep]_vars

C22_Witness ==
    /\ comp = "end" /\ pc = "idle" /\ ret = Returned("poll", "End")
    /\ Len(hist.inner) = 2 /\ Len(hist.yielded) = 1
    /\ hist.yielded[1] = hist.inner[1]


(***************************************************************************)
(* C23: once an EndingStream or a ControlledStream has returned the end of *)
(* the stream, no later poll of it yields an item.  Stated for the poll    *)
(* that directly follows: while the last return is the end of the stream,  *)
(* no step returns a poll with an item.                                    *)
(***************************************************************************)
YieldAfterEnd ==
    /\ comp \in {"end", "ctl"}
    /\ ret = Returned("poll", "End")
    /\ ret' = Returned("poll", "Ready")
    /\ Len(hist'.yielded) = Len(hist.yielded) + 1

C23_EndIsFinal == [][~YieldAfterEnd]_vars


(***************************************************************************)
(* A TimeoutStream (src/async/stream.rs) over a MultipartStream on the     *)
(* socket env, with the stream's response in resp.  timer holds the clock  *)
(* (now, in ticks), the deadline of the Sleep in self.timeout (when: a     *)
(* Sleep made by timer.sleep(duration) is due one duration after it was    *)
(* made) and whether the Sleep has registered the task for a wake at the   *)
(* deadline.                                                               *)
(***************************************************************************)
MaxTime == 2 * Duration + 1

\* timer.sleep(duration) at time now.
Sleep(now) == [now |-> now, when |-> now + Duration, registered |-> FALSE]

InitTimeout ==
    /\ comp = "timeout"
    /\ \E rr \in BOOLEAN : env = [InitEnv EXCEPT !.rready = rr]
    /\ timer = Some(Sleep(0)) /\ peer = None
    /\ resp = None /\ ctl = None
    /\ req = None /\ sink = None /\ ss = None
    /\ pc = "idle" /\ ctx = IdleCtx /\ ret = Returned("none", "none")
    /\ hist = InitHist

\* Time passes; at the deadline the timer wakes the task the Sleep registered.
Tick ==
    /\ comp = "timeout"
    /\ LET t == The(timer)
           due == t.registered /\ t.now + 1 >= t.when
       IN  /\ t.now < MaxTime
           /\ timer' = Some([t EXCEPT !.now = t.now + 1,
                                      !.registered = t.registered /\ ~due])
           /\ env' = IF due THEN [env EXCEPT !.woken = TRUE] ELSE env
    /\ UNCHANGED <<comp, peer, ctl, req, resp, sink, ss, pc, ctx, ret, hist>>

\* Sleep::poll: Ready at or after the deadline; before it the task is
\* registered with the timer, which can fail.
SleepPoll(t) ==
    IF t.now >= t.when THEN {[t |-> t, r |-> "Ready"]}
    ELSE {[t |-> [t EXCEPT !.registered = TRUE], r |-> "NotReady"],
          [t |-> t, r |-> "Err_Timer"]}

\* A timeout that leaves the expired Sleep in place.
TimedOutStale(t) == t

\* TimeoutStream::poll when the Sleep is Ready: self.timeout is a new Sleep.
TimedOut(t) == Sleep(t.now)

\* A data item that makes a new Sleep.
TimerAfterReset(t, r) == IF r = "Ready" THEN Sleep(t.now) ELSE t

\* TimeoutStream::poll after self.stream.poll() came to r: self.timeout is
\* left as it is.
TimerAfter(t, r) == t

\* A poll that goes on to the inner stream after the Sleep was Ready.
TimeoutPollThenInner ==
    /\ comp = "timeout" /\ pc = "idle"
    /\ \E o \in SleepPoll(The(timer)) :
         IF IsErr(o.r)
         THEN /\ timer' = Some(o.t)
              /\ pc' = "idle" /\ ctx' = IdleCtx /\ ret' = Returned("poll", o.r)
              /\ env' = EndCall(StartCall(env))
              /\ hist' = [hist EXCEPT !.last = "none"]
         ELSE /\ timer' = Some(IF o.r = "Ready" THEN TimedOut(o.t) ELSE o.t)
              /\ pc' = "inner" /\ ctx' = [IdleCtx EXCEPT !.call = "poll"]
              /\ env' = StartCall(env)
              /\ UNCHANGED <<ret, hist>>
    /\ UNCHANGED <<comp, peer, ctl, req, resp, sink, ss>>

\* TimeoutStream::poll: the poll of the Sleep.
TimeoutPoll ==
    /\ comp = "timeout" /\ pc = "idle"
    /\ \E o \in SleepPoll(The(timer)) :
         IF o.r = "Ready"
         THEN /\ timer' = Some(TimedOut(o.t))
              /\ pc' = "idle" /\ ctx' = IdleCtx /\ ret' = Returned("poll", "Timeout")
              /\ env' = EndCall(StartCall(env))
              /\ hist' = [hist EXCEPT !.last = "none"]
         ELSE IF IsErr(o.r)
         THEN /\ timer' = Some(o.t)
              /\ pc' = "idle" /\ ctx' = IdleCtx /\ ret' = Returned("poll", o.r)
              /\ env' = EndCall(StartCall(env))
              /\ hist' = [hist EXCEPT !.last = "none"]
         ELSE /\ timer' = Some(o.t)
              /\ pc' = "inner" /\ ctx' = [IdleCtx EXCEPT !.call = "poll"]
              /\ env' = StartCall(env)
              /\ UNCHANGED <<ret, hist>>
    /\ UNCHANGED <<comp, peer, ctl, req, resp, sink, ss>>

\* TimeoutStream::poll goes on to self.stream.poll(): the inner stream
\* takes or makes its response, and its check_read.
TimeoutInner ==
    /\ comp = "timeout" /\ pc = "inner"
    /\ LET response == IF resp = None THEN NewResponse ELSE The(resp) IN
       \E o \in RespCheckRead(response, env) :
         IF o.r = "true"
         THEN /\ pc' = "inner_recv" /\ ctx' = ctx
              /\ resp' = Some(o.f) /\ env' = After(o.e, o.r)
              /\ UNCHANGED <<ret, hist, timer>>
         ELSE LET r == IF o.r = "false" THEN "Pending" ELSE o.r IN
              /\ StreamReturn(o.f, o.e, r, None)
              /\ timer' = Some(TimerAfter(The(timer), r))
    /\ UNCHANGED <<comp, peer, ctl, req, sink, ss>>

\* The inner stream's poll: the head of its response's recv.
TimeoutRecv ==
    /\ comp = "timeout" /\ pc = "inner_recv"
    /\ \E o \in RespRecvHead(The(resp), env) :
         IF o.r = "loop"
         THEN /\ pc' = "inner_loop" /\ ctx' = [ctx EXCEPT !.first = TRUE]
              /\ resp' = Some(o.f) /\ env' = After(o.e, o.r)
              /\ UNCHANGED <<ret, hist, timer>>
         ELSE /\ StreamReturn(o.f, o.e, o.r, None)
              /\ timer' = Some(TimerAfter(The(timer), o.r))
    /\ UNCHANGED <<comp, peer, ctl, req, sink, ss>>

\* The inner stream's poll: one iteration of the loop of its response's recv.
TimeoutRecvLoop ==
    /\ comp = "timeout" /\ pc = "inner_loop"
    /\ \E o \in RespRecvIter(The(resp), env, ctx.first) :
         IF o.r = "loop"
         THEN /\ resp' = Some(o.f) /\ env' = After(o.e, o.r)
              /\ ctx' = Round([ctx EXCEPT !.first = o.first])
              /\ UNCHANGED <<pc, ret, hist, timer>>
         ELSE /\ StreamReturn(IF o.r = "Ready" THEN RespFinish(o.f) ELSE o.f, o.e, o.r, o.item)
              /\ timer' = Some(TimerAfter(The(timer), o.r))
    /\ UNCHANGED <<comp, peer, ctl, req, sink, ss>>

NextTimeout ==
    \/ TimeoutPoll \/ TimeoutInner \/ TimeoutRecv \/ TimeoutRecvLoop
    \/ Arrive \/ Tick

SpecTimeout == InitTimeout /\ [][NextTimeout]_vars

(***************************************************************************)
(* The three stream wrappers together.                                     *)
(***************************************************************************)
InitWrap == InitEnd \/ InitCtl \/ InitTimeout
NextWrap == NextEnd \/ NextCtl \/ NextTimeout
SpecWrap == InitWrap /\ [][NextWrap]_vars


(***************************************************************************)
(* C24: an error returned by the inner stream of an EndingStream, a        *)
(* ControlledStream or a TimeoutStream, or by the control stream of a      *)
(* ControlledStream, is returned unchanged by the wrapper's poll: it is    *)
(* never turned into the end of the stream, Pending or an item.            *)
(* hist.last is what the poll of the inner (or control) stream that ended  *)
(* the last call came to.                                                  *)
(***************************************************************************)
C24_ErrorPassedOn ==
    (comp \in {"end", "ctl", "timeout"} /\ IsErr(hist.last)) =>
        ret = Returned("poll", hist.last)

C24_Witness ==
    /\ comp = "timeout" /\ pc = "idle"
    /\ hist.last = "Err_Zmq" /\ ret = Returned("poll", "Err_Zmq")
    /\ The(timer).now < The(timer).when


(***************************************************************************)
(* C25: a TimeoutStream polled after its timer has expired yields a        *)
(* Timeout item, re-arms the timer for the full duration, and neither ends *)
(* nor cancels the inner stream: a data multipart that arrives afterwards  *)
(* is still yielded by a later poll, and the TimeoutStream never returns   *)
(* the end of the stream on its own account.                               *)
(***************************************************************************)
Expired(t) == t.now >= t.when

ExpiredStep ==
    (TimeoutPoll /\ Expired(The(timer))) =>
        /\ pc' = "idle" /\ ret' = Returned("poll", "Timeout")
        /\ The(timer').when = The(timer).now + Duration
        /\ The(timer').now = The(timer).now
        /\ resp' = resp /\ IO(env') = IO(env) /\ hist'.yielded = hist.yielded

TimeoutNeverEnds == comp = "timeout" => ret.r # "End"

C25_TimeoutKeepsStream == []TimeoutNeverEnds /\ [][ExpiredStep]_vars

\* A data multipart yielded after a Timeout: the timer has been re-armed.
C25_Witness ==
    /\ comp = "timeout" /\ pc = "idle"
    /\ ret = Returned("poll", "Ready") /\ Len(hist.yielded) = 1
    /\ The(timer).when > Duration


(***************************************************************************)
(* C26: a TimeoutStream arms its timer only at construction and when it    *)
(* yields a Timeout; yielding a data item does not reset the timer, so the *)
(* next Timeout is due one duration after the last arming whatever number  *)
(* of items was yielded in between.                                        *)
(***************************************************************************)
\* The deadline moves only in the poll that yields a Timeout, and a Timeout
\* is yielded only at or after the deadline.
ArmedOnTimeoutOnly ==
    /\ (comp = "timeout" /\ The(timer').when # The(timer).when) =>
           (TimeoutPoll /\ Expired(The(timer)) /\ ret' = Returned("poll", "Timeout"))
    /\ (TimeoutPoll /\ pc' = "idle" /\ ret'.r = "Timeout") => Expired(The(timer))

\* The poll that yields a data item leaves the Sleep as it is.
ItemKeepsTimer ==
    (comp = "timeout" /\ Len(hist'.yielded) = Len(hist.yielded) + 1) =>
        (The(timer').when = The(timer).when /\ ret' = Returned("poll", "Ready"))

C26_TimerNotResetByItems == [][ArmedOnTimeoutOnly /\ ItemKeepsTimer]_vars

\* An item was yielded before the first deadline, and the Timeout came at
\* that deadline all the same.
C26_Witness ==
    /\ comp = "timeout" /\ pc = "idle"
    /\ ret = Returned("poll", "Timeout") /\ Len(hist.yielded) = 1
    /\ The(timer).when = 2 * Duration


(***************************************************************************)
(* Two connected sockets: a MultipartRequest on one (env) sends, a         *)
(* MultipartResponse on the other (peer.env) receives.  The two futures    *)
(* run as tasks of one executor thread, each polled once it was woken and  *)
(* until its poll returned Ready or an error; peer.req and peer.resp hold  *)
(* what the last poll of each returned, peer.delivered the number of       *)
(* frames of the sender's wire the transport has carried over.             *)
(***************************************************************************)
NewPeer(e) == [env |-> e, req |-> "none", resp |-> "none", delivered |-> 0]

Done(r) == r = "Ready" \/ IsErr(r)

InitPair ==
    /\ comp = "pair"
    /\ env \in StartEnvs /\ ctl = None /\ timer = None
    /\ \E rr \in BOOLEAN : peer = Some(NewPeer([InitEnv EXCEPT !.rready = rr]))
    /\ \E n \in 0..MaxLen : /\ req = Some(NewRequest(Multipart(1, n)))
                            /\ hist = [InitHist EXCEPT !.offered = 1,
                                                        !.accepted = <<Accepted(1, Multipart(1, n))>>]
    /\ resp = Some(NewResponse) /\ sink = None /\ ss = None
    /\ pc = "idle" /\ ctx = IdleCtx /\ ret = Returned("none", "none")

\* A frame as the receiving socket reads it: the more-follows bit is the
\* SNDMORE flag the frame was sent with.
Carried(w) == [msg |-> w.msg, more |-> "SNDMORE" \in w.flags]

\* The transport is lossless and in order, and a message is carried over
\* whole: the frames from the first one not yet delivered up to the first one
\* sent without SNDMORE become readable at the other socket together.
Deliver ==
    /\ comp = "pair"
    /\ LET p == The(peer)
           d == p.delivered
       IN  \E k \in (d + 1)..Len(env.wire) :
             /\ "SNDMORE" \notin env.wire[k].flags
             /\ \A j \in (d + 1)..(k - 1) : "SNDMORE" \in env.wire[j].flags
             /\ LET frames == [i \in 1..(k - d) |-> Carried(env.wire[d + i])] IN
                peer' = Some([p EXCEPT
                                !.delivered = k,
                                !.env = FdEdge([Disturbed(p.env) EXCEPT
                                                  !.inq = p.env.inq \o frames,
                                                  !.arrived = p.env.arrived \o frames])])
    /\ UNCHANGED <<comp, timer, ctl, env, req, resp, sink, ss, pc, ctx, ret, hist>>

\* The executor polls the woken task of the request: MultipartRequest::poll,
\* up to the loop of send.
PairReqPoll ==
    /\ comp = "pair" /\ pc = "idle" /\ env.woken /\ ~Done(The(peer).req)
    /\ \E o \in ReqCheckWrite(The(req), StartCall(env)) :
         /\ req' = Some(o.f) /\ env' = After(o.e, o.r)
         /\ IF o.r = "true"
            THEN /\ pc' = "send" /\ ctx' = [IdleCtx EXCEPT !.call = "poll"]
                 /\ UNCHANGED <<ret, peer>>
            ELSE LET r == IF o.r = "false" THEN "Pending" ELSE o.r IN
                 /\ pc' = "idle" /\ ctx' = IdleCtx
                 /\ ret' = Returned("poll", r)
                 /\ peer' = Some([The(peer) EXCEPT !.req = r])
    /\ UNCHANGED <<comp, timer, ctl, resp, sink, ss, hist>>

\* MultipartRequest::poll: one iteration of the loop of send, and the return.
PairReqSend ==
    /\ comp = "pair" /\ pc = "send"
    /\ \E o \in ReqSendIter(The(req), env) :
         /\ env' = After(o.e, o.r)
         /\ IF o.r = "loop"
            THEN /\ req' = Some(o.f) /\ ctx' = Round(ctx)
                 /\ UNCHANGED <<pc, ret, hist, peer>>
            ELSE /\ pc' = "idle" /\ ctx' = IdleCtx
                 /\ ret' = Returned("poll", o.r)
                 /\ peer' = Some([The(peer) EXCEPT !.req = o.r])
                 /\ IF o.r = "Ready"
                    THEN req' = Some(ReqFinish(o.f))
                    ELSE req' = Some(o.f)
                 /\ hist' = [hist EXCEPT !.completed =
                                 @ \cup Completed(o.r = "Ready" /\ The(req).multipart # None, hist)]
    /\ UNCHANGED <<comp, timer, ctl, resp, sink, ss>>

\* The executor polls the woken task of the response: MultipartResponse::poll,
\* check_read.
PairRespPoll ==
    /\ comp = "pair" /\ pc = "idle" /\ The(peer).env.woken /\ ~Done(The(peer).resp)
    /\ \E o \in RespCheckRead(The(resp), StartCall(The(peer).env)) :
         /\ resp' = Some(o.f)
         /\ IF o.r = "true"
            THEN /\ pc' = "recv" /\ ctx' = [IdleCtx EXCEPT !.call = "poll"]
                 /\ ret' = ret
                 /\ peer' = Some([The(peer) EXCEPT !.env = After(o.e, o.r)])
            ELSE LET r == IF o.r = "false" THEN "Pending" ELSE o.r IN
                 /\ pc' = "idle" /\ ctx' = IdleCtx
                 /\ ret' = Returned("poll", r)
                 /\ peer' = Some([The(peer) EXCEPT !.env = After(o.e, o.r), !.resp = r])
    /\ UNCHANGED <<comp, timer, ctl, env, req, sink, ss, hist>>

\* MultipartResponse::poll: the head of recv.
PairRespRecv ==
    /\ comp = "pair" /\ pc = "recv"
    /\ \E o \in RespRecvHead(The(resp), The(peer).env) :
         /\ resp' = Some(o.f)
         /\ IF o.r = "loop"
            THEN /\ pc' = "recv_loop" /\ ctx' = [ctx EXCEPT !.first = TRUE]
                 /\ ret' = ret
                 /\ peer' = Some([The(peer) EXCEPT !.env = After(o.e, o.r)])
            ELSE /\ pc' = "idle" /\ ctx' = IdleCtx
                 /\ ret' = Returned("poll", o.r)
                 /\ peer' = Some([The(peer) EXCEPT !.env = After(o.e, o.r), !.resp = o.r])
    /\ UNCHANGED <<comp, timer, ctl, env, req, sink, ss, hist>>

\* MultipartResponse::poll: one iteration of the loop of recv, and the return.
PairRespRecvLoop ==
    /\ comp = "pair" /\ pc = "recv_loop"
    /\ \E o \in RespRecvIter(The(resp), The(peer).env, ctx.first) :
         IF o.r = "loop"
         THEN /\ resp' = Some(o.f) /\ ctx' = Round([ctx EXCEPT !.first = o.first])
              /\ peer' = Some([The(peer) EXCEPT !.env = After(o.e, o.r)])
              /\ UNCHANGED <<pc, ret, hist>>
         ELSE /\ pc' = "idle" /\ ctx' = IdleCtx
              /\ ret' = Returned("poll", o.r)
              /\ peer' = Some([The(peer) EXCEPT !.env = After(o.e, o.r), !.resp = o.r])
              /\ IF o.r = "Ready"
                 THEN /\ resp' = Some(RespFinish(o.f))
                      /\ hist' = [hist EXCEPT !.yielded = Append(@, The(o.item))]
                 ELSE /\ resp' = Some(o.f) /\ hist' = hist
    /\ UNCHANGED <<comp, timer, ctl, env, req, sink, ss>>

NextPair ==
    \/ PairReqPoll \/ PairReqSend \/ PairRespPoll \/ PairRespRecv \/ PairRespRecvLoop
    \/ Deliver \/ Writable \/ Unwritable

\* The executor runs a woken task, a running call goes on, and the
\* transport carries over what was sent.
SpecPair ==
    /\ InitPair /\ [][NextPair]_vars
    /\ WF_vars(PairReqPoll) /\ WF_vars(PairReqSend)
    /\ WF_vars(PairRespPoll) /\ WF_vars(PairRespRecv) /\ WF_vars(PairRespRecvLoop)
    /\ WF_vars(Deliver)

\* The frame contents of a multipart as the receiver yields it.
Contents(multipart) == [i \in 1..Len(multipart) |-> multipart[i].msg]

\* The request's send has completed.
SentToCompletion == comp = "pair" /\ 1 \in hist.completed

\* The response yielded a multipart with the frames of the request's, in order.
YieldedAsSent ==
    /\ Len(hist.yielded) = 1
    /\ Contents(hist.yielded[1]) = hist.accepted[1].frames

\* C27: round trip over a lossless in-order transport: a multipart sent to
\* completion by a MultipartRequest is yielded by the MultipartResponse on
\* the other socket (unless the library fails its poll), and what the
\* response yields has the same number of frames with the same contents in
\* the same order.
C27_RoundTrip ==
    /\ [](comp = "pair" /\ hist.yielded # <<>> => SentToCompletion /\ YieldedAsSent)
    /\ (SentToCompletion ~> (YieldedAsSent \/ IsErr(The(peer).resp)))


\* A step of the loop of MultipartRequest::send in which send_msg found the
\* event mask without POLLOUT and gave the frame back.
NotWritableStep ==
    /\ comp = "req" /\ pc = "send"
    /\ The(req).multipart # None /\ The(The(req).multipart) # <<>>
    /\ \E o \in ReqSendMsg(The(req), env, Head(The(The(req).multipart)),
                           MsgPlaceOf(Tail(The(The(req).multipart)))) :
         o.r = "back" /\ env' = After(o.e, "loop")

\* The frame is at the front of the remaining multipart again and the write
\* readiness is cleared.
PutBack == The(req').multipart = The(req).multipart /\ ~env'.wready /\ env'.cleared

\* The frames handed to zmq so far are the first frames of the multipart, in
\* order, each once; all of them once the poll returned Ready.
SentInOrder ==
    comp = "req" =>
      LET frames == hist.accepted[1].frames
          sent == [i \in 1..Len(env.wire) |-> env.wire[i].msg]
      IN  /\ Len(sent) <= Len(frames)
          /\ sent = SubSeq(frames, 1, Len(sent))
          /\ (1 \in hist.completed => sent = frames)

\* C28: when the next frame of a MultipartRequest cannot be sent because the
\* socket is not writable, the frame is put back at the front, the write
\* readiness is cleared and that poll returns Pending; over all polls the
\* frames sent are each frame of the multipart once, in the original order.
C28_NotWritableReturnsPending ==
    /\ []SentInOrder
    /\ [][NotWritableStep => PutBack /\ pc' = "idle" /\ ret' = Returned("poll", "Pending")]_vars


(***************************************************************************)
(* A request, or a response built on a socket that may hold a message      *)
(* already (it arrived before the future was made and the scheduler has    *)
(* not reported it, or has had its readiness cleared since).               *)
(***************************************************************************)
\* The frames of inbound message 1 when it has n frames.
Backlog(n) == [i \in 1..n |-> [msg |-> <<1, i>>, more |-> i < n]]

InitRespBacklog ==
    /\ comp = "resp"
    /\ \E e \in StartEnvs, n \in 0..MaxLen :
         env = [e EXCEPT !.inq = Backlog(n), !.arrived = Backlog(n)]
    /\ ctl = None /\ timer = None /\ peer = None
    /\ resp = Some(NewResponse)
    /\ req = None /\ sink = None /\ ss = None
    /\ pc = "idle" /\ ctx = IdleCtx /\ ret = Returned("none", "none")
    /\ hist = InitHist

InitCheck == InitReq \/ InitRespBacklog

NextCheck == NextReq \/ NextResp

SpecCheck == InitCheck /\ [][NextCheck]_vars

\* A poll of a request or a response whose check_write / check_read found the
\* scheduler reporting Pending for its direction, and did not fail.
CheckPendingStep ==
    /\ pc = "idle"
    /\ \/ comp = "req" /\ ReqPoll /\ The(req).sock /\ ~env.wready
       \/ comp = "resp" /\ RespPoll /\ The(resp).sock /\ ~env.rready
    /\ ~(pc' = "idle" /\ IsErr(ret'.r))

\* The event mask has the bit of the component's direction.
MaskHasBit == IF comp = "req" THEN POLLOUT(env) ELSE POLLIN(env)

\* The readiness of the component's direction was cleared by the call.
ReadinessCleared ==
    env'.cleared /\ (IF comp = "req" THEN ~env'.wready ELSE ~env'.rready)

\* The poll goes on to send resp. to receive in the same call, with an
\* immediate wake of the task scheduled.
WakeAndGoOn ==
    /\ env'.selfwoke /\ env'.woken
    /\ pc' = (IF comp = "req" THEN "send" ELSE "recv")

\* The poll returns Pending: nothing was sent or received and no wake was
\* scheduled.
PendingWithoutIO ==
    /\ pc' = "idle" /\ ret' = Returned("poll", "Pending")
    /\ env'.wire = env.wire /\ env'.inq = env.inq
    /\ ~env'.selfwoke /\ env'.woken = FALSE
    /\ UNCHANGED <<req, resp, hist>>

\* C29: in check_write and check_read, when the scheduler reports Pending,
\* the readiness of that direction is cleared in every case; with the
\* direction's bit in the event mask an immediate wake is scheduled and the
\* poll goes on to do I/O in the same call; without the bit the poll returns
\* Pending, attempting no send or receive and scheduling no wake.
C29_CheckOnPending ==
    [][CheckPendingStep =>
          /\ ReadinessCleared
          /\ (IF MaskHasBit THEN WakeAndGoOn ELSE PendingWithoutIO)]_vars

C29_Witness ==
    /\ comp = "resp" /\ pc = "recv" /\ env.selfwoke /\ env.cleared /\ ~env.rready
    /\ POLLIN(env) /\ The(resp).sock


\* The head of recv of a response that holds the pair, run while the event
\* mask has no POLLIN (the scheduler reported read-ready, or check_read would
\* have returned), the library not failing.
StaleReadyStep ==
    /\ comp = "resp" /\ pc = "recv" /\ RespRecv
    /\ The(resp).sock /\ ~POLLIN(env)
    /\ ~(pc' = "idle" /\ IsErr(ret'.r))

\* C30: when the scheduler reports read-ready but the event mask has no
\* POLLIN, the poll of a MultipartResponse attempts no receive, clears the
\* read readiness and returns Pending, and the frames accumulated so far are
\* left as they are.
C30_StaleReadyReturnsPending ==
    [][StaleReadyStep =>
          /\ pc' = "idle" /\ ret' = Returned("poll", "Pending")
          /\ env'.inq = env.inq /\ env'.arrived = env.arrived
          /\ ~env'.rready /\ env'.cleared
          /\ resp' = resp /\ hist' = hist]_vars

C30_Witness ==
    /\ comp = "resp" /\ pc = "idle" /\ ret = Returned("poll", "Pending")
    /\ env.selfwoke /\ env.cleared /\ ~env.rready /\ ~POLLIN(env)
    /\ The(resp).sock /\ The(resp).multipart # None


(***************************************************************************)
(* A response on a socket whose receive may report would-block although    *)
(* the event mask showed POLLIN; the socket may hold a message already.     *)
(***************************************************************************)
InitRespSpurious ==
    /\ comp = "resp"
    /\ \E e \in StartEnvs, n \in 0..MaxLen :
         env = [e EXCEPT !.inq = Backlog(n), !.arrived = Backlog(n), !.spurious = TRUE]
    /\ ctl = None /\ timer = None /\ peer = None
    /\ resp = Some(NewResponse)
    /\ req = None /\ sink = None /\ ss = None
    /\ pc = "idle" /\ ctx = IdleCtx /\ ret = Returned("none", "none")
    /\ hist = InitHist

InitSpurious == InitReq \/ InitRespSpurious

SpecSpurious == InitSpurious /\ [][NextCheck]_vars

\* C31: a poll of a MultipartRequest or a MultipartResponse that returns
\* Pending has, in that call, cleared the scheduler readiness of its
\* direction or scheduled an immediate wake of the task: Pending is never
\* returned with no wake-up source, also when a receive reports would-block
\* although the event mask showed readable.
C31_PendingHasWakeSource ==
    (comp \in {"req", "resp"} /\ pc = "idle" /\ ret = Returned("poll", "Pending"))
        => (env.cleared \/ env.selfwoke)


\* An iteration of the loop of MultipartResponse::recv whose receive reported
\* would-block: no frame was taken and the call did not fail.
WouldBlockStep ==
    /\ comp = "resp" /\ pc = "recv_loop" /\ RespRecvLoop
    /\ env'.inq = env.inq
    /\ ~(pc' = "idle" /\ IsErr(ret'.r))

\* C32: in a poll of a MultipartResponse, a would-block reported after at
\* least one frame was read in that poll makes the poll schedule an immediate
\* wake and return Pending with the frames read so far kept, instead of
\* calling receive again in the same poll; a would-block before any frame
\* was read makes the poll return Pending.
C32_WouldBlockReturnsPending ==
    [][WouldBlockStep =>
          /\ pc' = "idle" /\ ret' = Returned("poll", "Pending")
          /\ (~ctx.first => env'.selfwoke)
          /\ The(resp').multipart = The(resp).multipart]_vars


\* The receive loop of a poll that has read no frame yet holds frames all the
\* same: they were accumulated by an earlier poll, which ended with an error
\* (a poll that yields leaves none, and no poll returns Pending with a
\* partial message).
FramesOfFailedPoll ==
    /\ comp \in {"resp", "stream"} /\ pc = "recv_loop" /\ ctx.first
    /\ The(resp).multipart # None

\* The poll yields a multipart that begins with the frames it held.
YieldsHeldFrames ==
    /\ pc' = "idle" /\ ret'.r = "Ready"
    /\ LET held == The(The(resp).multipart)
           item == hist'.yielded[Len(hist'.yielded)]
       IN  Len(held) <= Len(item) /\ SubSeq(item, 1, Len(held)) = held

\* C33: when a receive of a MultipartResponse fails with an error other than
\* would-block after frames of a message were accumulated, the poll returns
\* the error and the frames are discarded: no later poll of the future, or of
\* the stream that owned it, yields a multipart containing them.
C33_ErrorDiscardsFrames ==
    /\ [](comp \in {"resp", "stream"} /\ pc = "idle" /\ IsErr(ret.r) /\ resp # None
             => The(resp).multipart = None)
    /\ [][FramesOfFailedPoll => ~YieldsHeldFrames]_vars


\* A poll_flush (or poll_ready, poll_close) or a poll_next of a sink-stream
\* that was in state Both when it was called returns without an error: at
\* once, or, for a flush, after the loop of its send (the stream handed to
\* poll_sink is there only when the call came from Both).
FromBothReturns ==
    /\ comp = "ss" /\ pc' = "idle" /\ ~IsErr(ret'.r)
    /\ \/ pc = "idle" /\ The(ss).inner = "Both" /\ (SSPollFlush \/ SSPollNext)
       \/ pc = "send" /\ ctx.stream # None /\ SSSend

\* The state is Sink or Stream and its object holds the socket/file pair.
SingleDirection(s) ==
    \/ s.inner = "Sink" /\ ObjHolds(s.sink) /\ ~s.sock
    \/ s.inner = "Stream" /\ ObjHolds(s.stream) /\ ~s.sock

\* C34: from state Both, the next poll_flush (resp. poll_next) gives the
\* parked socket to the sink (resp. the stream) before polling it, and when
\* the call returns the state is not Both any more: it is Sink or Stream,
\* with the socket in that object.
C34_BothCollapses == [][FromBothReturns => SingleDirection(The(ss'))]_vars


\* A poll_flush (poll_ready, poll_close) returns Ready because the send it
\* polled has finished; a poll_next returns Ready because the receive it
\* polled yielded an item.
SendCompletes == comp = "ss" /\ pc = "send" /\ SSSend /\ pc' = "idle" /\ ret'.r = "Ready"
ReceiveCompletes ==
    comp = "ss" /\ pc = "recv_loop" /\ SSRecvLoop /\ pc' = "idle" /\ ret'.r = "Ready"

\* C35: when a sub-poll of a sink-stream completes, the socket is taken back
\* from the finished side; with no operation in progress in the opposite
\* direction the state becomes Ready, otherwise the socket is handed to the
\* opposite pending operation and the state becomes Stream (a send
\* completed) or Sink (a receive completed).
C35_CompletionHandsOver ==
    /\ [][SendCompletes =>
            IF ctx.stream = None THEN ss' = Some(NewSinkStream)
            ELSE ss' = Some(SSState("Stream", FALSE, None, Some(TGiveSocket(The(ctx.stream)))))]_vars
    /\ [][ReceiveCompletes =>
            IF ctx.sink = None THEN ss' = Some(NewSinkStream)
            ELSE ss' = Some(SSState("Sink", FALSE, Some(TGiveSocket(The(ctx.sink))), None))]_vars

C35_Witness ==
    /\ comp = "ss" /\ pc = "idle" /\ ret = Returned("poll_next", "Ready")
    /\ The(ss).inner = "Sink" /\ ObjHolds(The(ss).sink) /\ SendInFlight(The(ss))
    /\ Len(hist.yielded) = 1


\* The receive a poll of a MultipartStream works on: the one kept in
\* self.response, or a new one when there is none.
ReceiveOf(r) == IF r = None THEN NewResponse ELSE The(r)

\* C36: a MultipartStream has at most one receive in progress: a poll that
\* returns not-ready keeps that receive, with the frames it has accumulated,
\* and the next poll goes on with it instead of starting a new one; a poll
\* that yields a multipart leaves no receive in progress, so that the next
\* poll starts a fresh one.
C36_OneReceiveInProgress ==
    /\ [](comp = "stream" /\ pc = "idle" =>
            /\ (ret.r = "NotReady" => resp # None /\ The(resp).sock)
            /\ (ret.r = "Ready" => resp = None))
    /\ [][comp = "stream" /\ pc' = "idle" /\ ret'.r = "NotReady" /\ ret' # ret =>
            The(resp').multipart = ReceiveOf(resp).multipart]_vars
    /\ [][StreamPoll /\ pc' = "recv" => resp' = Some(ReceiveOf(resp))]_vars

C36_Witness ==
    /\ comp = "stream" /\ pc = "recv" /\ ret = Returned("poll", "NotReady")
    /\ resp # None /\ Len(hist.yielded) = 1


\* A call of the sink-stream returns.  It was made on a state other than
\* Polling (a call that has gone past its first step was), it is no
\* start_send made without a Ready from poll_ready, and no send or receive
\* of the library failed in it.
ConformingReturn ==
    /\ comp = "ss" /\ pc' = "idle"
    /\ SSStartSend \/ SSPollFlush \/ SSPollNext \/ SSSend \/ SSRecv \/ SSRecvLoop
    /\ pc # "idle" \/ The(ss).inner # "Polling"
    /\ ~(SSStartSend /\ hist.promise # "ready")
    /\ ret'.r \notin {"Err_Zmq", "Err_EAGAIN"}

\* C37: when a sink-stream is used conformingly (start_send only after
\* poll_ready returned Ready, no send or receive failing), no operation
\* returns Error::Sink or Error::Stream under any interleaving of poll_ready,
\* poll_flush, start_send and poll_next, and the state is never Polling when
\* an operation returns.
C37_ConformingNeverFails ==
    [][ConformingReturn => ~IsErr(ret'.r) /\ The(ss').inner # "Polling"]_vars

C37_Witness ==
    /\ comp = "ss" /\ pc = "idle" /\ ret = Returned("poll_next", "Pending")
    /\ hist.promise = "ready" /\ The(ss).inner = "Stream" /\ ObjHolds(The(ss).stream)
    /\ Len(hist.accepted) = 1


\* The operation in progress in the object p (an Option): none, or the one
\* with the frames its future holds (unsent for a send, accumulated for a
\* receive).
InProgress(p) ==
    IF p # None /\ The(p).o.state = "Pending" THEN Some(The(The(p).f).multipart) ELSE None

\* The sink and the stream of the sink-stream: in the state between calls,
\* among the locals of the running call.
SinkNow == IF pc = "idle" THEN The(ss).sink ELSE ctx.sink
StreamNow == IF pc = "idle" THEN The(ss).stream ELSE ctx.stream

\* A step of poll_next, resp. of poll_flush (poll_ready, poll_close), that
\* does not return an error.
NextStepOk ==
    /\ comp = "ss" /\ (SSPollNext \/ SSRecv \/ SSRecvLoop)
    /\ ~(pc' = "idle" /\ IsErr(ret'.r))
FlushStepOk ==
    /\ comp = "ss" /\ (SSPollFlush \/ SSSend)
    /\ ~(pc' = "idle" /\ IsErr(ret'.r))

\* C38: in a sink-stream, a poll_next that returns no error never starts,
\* completes or discards a send (whether a send is in flight, and its unsent
\* frames, are the same before and after), and a poll_flush or poll_ready
\* that returns no error never starts, completes or discards a receive.
C38_OtherDirectionUntouched ==
    /\ [][NextStepOk => InProgress(SinkNow') = InProgress(SinkNow) /\ env'.wire = env.wire]_vars
    /\ [][FlushStepOk => InProgress(StreamNow') = InProgress(StreamNow)
                           /\ env'.inq = env.inq /\ hist'.yielded = hist.yielded]_vars

C38_Witness ==
    /\ comp = "ss" /\ pc = "idle" /\ ret = Returned("poll_next", "Ready")
    /\ The(ss).inner = "Sink" /\ InProgress(The(ss).sink) = Some(Some(<<<<1, 1>>>>))
    /\ env.wire = <<>>


\* C39: when the send of a frame fails with an error after a frame of the
\* multipart was written with the more-follows flag, the sink never writes
\* frames of another multipart to the socket afterwards: on the wire a frame
\* sent with SNDMORE is the last one or is followed by a frame of the same
\* multipart, so that no later start_send is spliced into a half-written
\* message.
C39_NoSpliceAfterError ==
    comp \in {"sink", "ss"} =>
      \A i \in 1..Len(env.wire) :
         ("SNDMORE" \in env.wire[i].flags /\ i < Len(env.wire))
            => env.wire[i + 1].msg[1] = env.wire[i].msg[1]


\* The frames the inner stream's receive holds.
Held == IF resp = None \/ The(resp).multipart = None THEN <<>> ELSE The(The(resp).multipart)

\* Nothing that arrived is lost or out of order: the frames yielded, the
\* frames held and the frames still to read are the frames that arrived.
Conserved == Concat(hist.yielded) \o Held \o env.inq = env.arrived

\* The inner stream has a multipart ready: the frames held and those
\* readable make a whole message.
MultipartReady == \E i \in 1..Len(env.inq) : ~env.inq[i].more

\* A poll of the TimeoutStream with the timer expired and a multipart ready
\* returns Timeout and does not poll the inner stream.
TimeoutBeforeData ==
    (TimeoutPoll /\ Expired(The(timer)) /\ MultipartReady) =>
        /\ pc' = "idle" /\ ret' = Returned("poll", "Timeout")
        /\ resp' = resp /\ IO(env') = IO(env) /\ hist' = [hist EXCEPT !.last = "none"]

\* A poll that yields data with nothing lost before it yields the message
\* next in arrival order, whole, and loses nothing.
YieldsNextMessage ==
    (comp = "timeout" /\ TimeoutRecvLoop /\ Conserved /\ pc' = "idle" /\ ret'.r = "Ready") =>
        /\ Conserved'
        /\ Len(hist'.yielded) = Len(hist.yielded) + 1
        /\ LET item == hist'.yielded[Len(hist'.yielded)] IN
           /\ item = Held \o SubSeq(env.inq, 1, Len(item) - Len(Held))
           /\ item[1].msg[2] = 1
           /\ \A i \in 1..Len(item) : item[i].more <=> (i < Len(item))

\* C40: when at a poll of a TimeoutStream the timer has expired and the
\* inner stream has a multipart ready too, the poll yields Timeout without
\* polling the inner stream, and the ready multipart is neither lost nor
\* reordered: it is the next data item a later poll yields.
C40_TimeoutBeforeReadyData == [][TimeoutBeforeData]_vars /\ [][YieldsNextMessage]_vars

C40_Witness ==
    /\ comp = "timeout" /\ pc = "idle" /\ ret = Returned("poll", "Timeout")
    /\ MultipartReady /\ Conserved /\ hist.yielded = <<>>
    /\ The(timer).when = The(timer).now + Duration

====
